---- MODULE Spec2Model ----
(***************************************************************************)
(* csp-html-webpack-plugin: the CspHtmlWebpackPlugin class, its two hooks  *)
(* (mergeOptions on beforeAssetTagGeneration, processCsp on beforeEmit)    *)
(* and the pure helpers they call.                                         *)
(*                                                                         *)
(* Text.  A JavaScript string is a sequence of atoms.  An atom stands for  *)
(* a fixed piece of text: Q is the apostrophe, SP the space, SEMI the      *)
(* semicolon; every other atom is a run of characters that holds no        *)
(* apostrophe, no double quote, no whitespace and no semicolon ("self",    *)
(* "https://", "a.com", "/x.js", ...).  Concatenation, search, prefix      *)
(* test and the two regular expressions of the plugin are computed on      *)
(* these sequences the way the JavaScript engine computes them on          *)
(* characters.                                                             *)
(***************************************************************************)
EXTENDS Integers, Sequences, FiniteSets, TLC

VARIABLES
    opts,             \* this.opts, frozen by the constructor
    cspPluginPolicy,  \* this.cspPluginPolicy, frozen by the constructor
    policy,           \* this.policy, written by mergeOptions
    hashEnabled,      \* this.hashEnabled, written by mergeOptions
    nonceEnabled,     \* this.nonceEnabled, written by mergeOptions
    processFn,        \* this.processFn, written by mergeOptions
    htmlPluginData,   \* per document: the object html-webpack-plugin hands to both hooks
    errors,           \* compilation.errors
    randomBytes,      \* number of crypto.randomBytes(16) calls made so far
    pc,               \* per document: which hook the host calls next
    run,              \* per document: the locals of its processCsp call
    calls,            \* the calls made to finalization functions, in order
    compileCb,        \* per document: the completion callbacks called, in order
    call              \* a call user code makes itself: new CspHtmlWebpackPlugin(...)
                      \* or plugin.buildPolicy(...), with what it returned or threw

vars == <<opts, cspPluginPolicy, policy, hashEnabled, nonceEnabled, processFn,
          htmlPluginData, errors, randomBytes, pc, run, calls, compileCb, call>>

----------------------------------------------------------------------------
(* Bounds *)

NumDocs == 2
MaxTokens == 3

Docs == 1..NumDocs

----------------------------------------------------------------------------
(* Text *)

Q == "'"
SP == " "
SEMI == ";"

\* s.startsWith(p)
StartsWith(s, p) ==
    /\ Len(p) <= Len(s)
    /\ SubSeq(s, 1, Len(p)) = p

\* sub occurs in s at position i (1-based)
OccursAt(s, sub, i) ==
    /\ i >= 1
    /\ i + Len(sub) - 1 <= Len(s)
    /\ SubSeq(s, i, i + Len(sub) - 1) = sub

\* s.includes(sub)
Includes(s, sub) == \E i \in 1..(Len(s) + 1) : OccursAt(s, sub, i)

\* s.trim()
RECURSIVE TrimLeft(_)
TrimLeft(s) == IF s # <<>> /\ Head(s) = SP THEN TrimLeft(Tail(s)) ELSE s

RECURSIVE TrimRight(_)
TrimRight(s) ==
    IF s # <<>> /\ s[Len(s)] = SP THEN TrimRight(SubSeq(s, 1, Len(s) - 1)) ELSE s

Trim(s) == TrimRight(TrimLeft(s))

\* arr.join(sep)
RECURSIVE Join(_, _)
Join(arr, sep) ==
    IF arr = <<>> THEN <<>>
    ELSE IF Len(arr) = 1 THEN arr[1]
    ELSE arr[1] \o sep \o Join(Tail(arr), sep)

\* lodash uniq: the first occurrence of every element, in order
RECURSIVE uniqFrom(_, _)
uniqFrom(arr, seen) ==
    IF arr = <<>> THEN <<>>
    ELSE IF Head(arr) \in seen THEN uniqFrom(Tail(arr), seen)
    ELSE <<Head(arr)>> \o uniqFrom(Tail(arr), seen \cup {Head(arr)})

uniq(arr) == uniqFrom(arr, {})

\* lodash compact: drops the falsy elements; for strings that is ""
compact(arr) == SelectSeq(arr, LAMBDA s : s # <<>>)

\* the whitespace-delimited tokens of s, in order
RECURSIVE TokensFrom(_, _)
TokensFrom(s, cur) ==
    IF s = <<>> THEN (IF cur = <<>> THEN <<>> ELSE <<cur>>)
    ELSE IF Head(s) = SP
         THEN (IF cur = <<>> THEN <<>> ELSE <<cur>>) \o TokensFrom(Tail(s), <<>>)
         ELSE TokensFrom(Tail(s), Append(cur, Head(s)))

Tokens(s) == TokensFrom(s, <<>>)

Range(f) == {f[i] : i \in DOMAIN f}

----------------------------------------------------------------------------
(* Source expressions and directive values *)

KwStrictDynamic == <<Q, "strict-dynamic", Q>>
KwSelf == <<Q, "self", Q>>
KwNone == <<Q, "none", Q>>
KwUnsafeInline == <<Q, "unsafe-inline", Q>>
KwUnsafeEval == <<Q, "unsafe-eval", Q>>

\* a directive value is a string or an array of strings
StringVal(s) == [isArray |-> FALSE, str |-> s]
ArrayVal(items) == [isArray |-> TRUE, items |-> items]

\* policyStr.match(/https?:\/\/[^'"]+/g) || []
\* the class [^'"]+ is greedy and takes spaces and further URLs with it
IsScheme(a) == a \in {"http://", "https://"}
IsQuote(a) == a \in {Q, "\""}

RECURSIVE RunEnd(_, _)
RunEnd(s, j) ==
    IF j + 1 <= Len(s) /\ ~IsQuote(s[j + 1]) THEN RunEnd(s, j + 1) ELSE j

RECURSIVE MatchUrlsFrom(_, _)
MatchUrlsFrom(s, i) ==
    IF i > Len(s) THEN <<>>
    ELSE IF IsScheme(s[i]) /\ i + 1 <= Len(s) /\ ~IsQuote(s[i + 1])
         THEN LET j == RunEnd(s, i + 1)
              IN  <<SubSeq(s, i, j)>> \o MatchUrlsFrom(s, j + 1)
         ELSE MatchUrlsFrom(s, i + 1)

MatchUrls(s) == MatchUrlsFrom(s, 1)

\* val.replace(/\s?'strict-dynamic'\s?/gi, ' ')
\* the i flag: the keyword is matched in any letter case
IsStrictDynamicAt(s, i) ==
    /\ i >= 1
    /\ i + 2 <= Len(s)
    /\ s[i] = Q
    /\ s[i + 1] \in {"strict-dynamic", "Strict-Dynamic", "STRICT-DYNAMIC"}
    /\ s[i + 2] = Q

RECURSIVE ReplaceStrictDynamicFrom(_, _)
ReplaceStrictDynamicFrom(s, i) ==
    IF i > Len(s) THEN <<>>
    ELSE LET start == IF s[i] = SP /\ IsStrictDynamicAt(s, i + 1) THEN i + 1
                      ELSE IF IsStrictDynamicAt(s, i) THEN i
                      ELSE 0
         IN  IF start = 0
             THEN <<s[i]>> \o ReplaceStrictDynamicFrom(s, i + 1)
             ELSE LET after == IF start + 3 <= Len(s) /\ s[start + 3] = SP
                               THEN start + 4 ELSE start + 3
                  IN  <<SP>> \o ReplaceStrictDynamicFrom(s, after)

ReplaceStrictDynamic(s) == ReplaceStrictDynamicFrom(s, 1)

----------------------------------------------------------------------------
(* Objects: a policy is an ordered list of (key, value) entries; an        *)
(* enable map and a cspPlugin options object are functions on their keys   *)

RECURSIVE Keys(_)
Keys(obj) == IF obj = <<>> THEN <<>> ELSE <<Head(obj).key>> \o Keys(Tail(obj))

IndexOf(obj, k) == CHOOSE i \in DOMAIN obj : obj[i].key = k
HasKey(obj, k) == \E i \in DOMAIN obj : obj[i].key = k
Get(obj, k) == obj[IndexOf(obj, k)].val

\* { ...a, ...b } on ordered objects
RECURSIVE Spread(_, _)
Spread(a, b) ==
    IF b = <<>> THEN a
    ELSE LET e == Head(b)
             a1 == IF HasKey(a, e.key)
                   THEN [a EXCEPT ![IndexOf(a, e.key)] = e]
                   ELSE Append(a, e)
         IN  Spread(a1, Tail(b))

\* { ...a, ...b } on maps whose key order is never read
SpreadMap(a, b) == b @@ a

\* lodash get(obj, key, dflt) on one level
GetOr(obj, k, dflt) == IF k \in DOMAIN obj THEN obj[k] ELSE dflt

EmptyMap == <<>>

defaultPolicy ==
    << [key |-> "base-uri", val |-> StringVal(KwSelf)],
       [key |-> "object-src", val |-> StringVal(KwNone)],
       [key |-> "script-src",
        val |-> ArrayVal(<<KwUnsafeInline, KwSelf, KwUnsafeEval>>)],
       [key |-> "style-src",
        val |-> ArrayVal(<<KwUnsafeInline, KwSelf, KwUnsafeEval>>)] >>

defaultAdditionalOpts ==
    [ enabled |-> [isFunction |-> FALSE, val |-> TRUE],
      hashingMethod |-> "sha256",
      hashEnabled |-> ("script-src" :> TRUE) @@ ("style-src" :> TRUE),
      nonceEnabled |-> ("script-src" :> TRUE) @@ ("style-src" :> TRUE),
      processFn |-> "defaultProcessFn" ]

----------------------------------------------------------------------------
(* Documents.  htmlPluginData.html is text; cheerio.load parses it into    *)
(* the element list $ and $.html() writes $ back as text.  An element is   *)
(* [tag, attrs, inner, inHead]: attrs maps the attribute names present to  *)
(* their values, inner is the raw inner text, and the elements of <head>   *)
(* come first.  Text written by the serializer is marked raw = FALSE: it   *)
(* need not equal, byte for byte, the text the host handed in.             *)

Element(tag, attrs, inner) ==
    [tag |-> tag, attrs |-> attrs, inner |-> inner, inHead |-> TRUE]

HasAttr(el, name) == name \in DOMAIN el.attrs

\* cheerio.load(htmlPluginData.html, ...)
Load(html) == [hasHead |-> html.hasHead, nodes |-> html.nodes]

\* $.html()
Html(dom) == [raw |-> FALSE, hasHead |-> dom.hasHead, nodes |-> dom.nodes]

\* $(selector), for the selectors the plugin uses
Matches(selector, el) ==
    CASE selector = "script[src]" ->
            el.tag = "script" /\ HasAttr(el, "src")
      [] selector = "link[rel=\"stylesheet\"]" ->
            el.tag = "link" /\ HasAttr(el, "rel") /\ el.attrs["rel"] = <<"stylesheet">>
      [] selector = "script:not([src])" ->
            el.tag = "script" /\ ~HasAttr(el, "src")
      [] selector = "style:not([href])" ->
            el.tag = "style" /\ ~HasAttr(el, "href")
      [] selector = "meta[http-equiv=\"Content-Security-Policy\"]" ->
            /\ el.tag = "meta"
            /\ HasAttr(el, "http-equiv")
            /\ el.attrs["http-equiv"] = <<"Content-Security-Policy">>
      [] OTHER -> FALSE

\* the positions of the elements $(selector) matches, in document order
RECURSIVE SelectFrom(_, _, _)
SelectFrom(nodes, selector, i) ==
    IF i > Len(nodes) THEN <<>>
    ELSE (IF Matches(selector, nodes[i]) THEN <<i>> ELSE <<>>)
         \o SelectFrom(nodes, selector, i + 1)

Select(dom, selector) == SelectFrom(dom.nodes, selector, 1)

\* $(element).attr(name, value)
SetAttr(el, name, value) == [el EXCEPT !.attrs = (name :> value) @@ @]

----------------------------------------------------------------------------
(* The methods of CspHtmlWebpackPlugin *)

staticSources ==
    <<"self", "unsafe-inline", "unsafe-eval", "none", "strict-dynamic",
      "report-sample">>

\* the keyword looked for anywhere in the value, apostrophes or not
MatchesSource_anywhere(val, source) == Includes(val, <<source>>)

\* ` ${val} `.match(new RegExp(`\\s${source}\\s`))
MatchesSource(val, source) == Includes(<<SP>> \o val \o <<SP>>, <<SP, source, SP>>)

\* Flat without uniq
Flat_noUniq(v) == IF v.isArray THEN Join(compact(v.items), <<SP>>) ELSE v.str

\* compact(uniq(arr)).join(' ') for an array, the string itself otherwise
Flat(v) == IF v.isArray THEN Join(compact(uniq(v.items)), <<SP>>) ELSE v.str

\* the for loop of validatePolicy over sourcesRegexes, for one key
RECURSIVE validateKey(_, _, _)
validateKey(key, val, i) ==
    IF i > Len(staticSources) THEN <<>>
    ELSE (IF MatchesSource(val, staticSources[i])
          THEN <<[key |-> key, source |-> staticSources[i]]>>
          ELSE <<>>)
         \o validateKey(key, val, i + 1)

\* validatePolicy: the errors it pushes, in order
RECURSIVE validatePolicy(_)
validatePolicy(thisPolicy) ==
    IF thisPolicy = <<>> THEN <<>>
    ELSE validateKey(Head(thisPolicy).key, Flat(Head(thisPolicy).val), 1)
         \o validatePolicy(Tail(thisPolicy))

\* isEnabled without the look at the document's own cspPlugin.enabled
isEnabled_instanceOnly(thisOpts, data, d) ==
    IF thisOpts.enabled.isFunction
    THEN d \in thisOpts.enabled.trueFor
    ELSE thisOpts.enabled.val

\* isEnabled letting the document's own cspPlugin.enabled decide when given
isEnabled_documentWins(thisOpts, data, d) ==
    IF "enabled" \in DOMAIN data.cspPlugin
    THEN data.cspPlugin["enabled"]
    ELSE IF thisOpts.enabled.isFunction
         THEN d \in thisOpts.enabled.trueFor
         ELSE thisOpts.enabled.val

\* isEnabled(htmlPluginData); d is the document the data belongs to, which
\* is all a predicate given as this.opts.enabled is taken to look at
isEnabled(thisOpts, data, d) ==
    IF "enabled" \in DOMAIN data.cspPlugin /\ data.cspPlugin["enabled"] = FALSE
    THEN FALSE
    ELSE IF thisOpts.enabled.isFunction
         THEN d \in thisOpts.enabled.trueFor
         ELSE thisOpts.enabled.val

\* the calls isEnabled makes to a predicate given as this.opts.enabled: the
\* documents it was called with
isEnabledCalls(thisOpts, data, d) ==
    IF "enabled" \in DOMAIN data.cspPlugin /\ data.cspPlugin["enabled"] = FALSE
    THEN <<>>
    ELSE IF thisOpts.enabled.isFunction THEN <<d>> ELSE <<>>

\* createNonce: the n-th call of crypto.randomBytes(16), in base64
createNonce(n) == "r" \o ToString(n)

NonceToken(nonce) == <<Q, "nonce-", nonce, Q>>

\* $(element).attr('src') || $(element).attr('href')
srcOrHref(el) ==
    IF HasAttr(el, "src") /\ el.attrs["src"] # <<>>
    THEN [defined |-> TRUE, str |-> el.attrs["src"]]
    ELSE IF HasAttr(el, "href")
         THEN [defined |-> TRUE, str |-> el.attrs["href"]]
         ELSE [defined |-> FALSE, str |-> <<>>]

\* the url loop run whether or not 'strict-dynamic' is there
Whitelisted_ignoresStrictDynamic(el, urls, hasStrictDynamic) ==
    IF urls = <<>> THEN "nonce"
    ELSE IF ~srcOrHref(el).defined THEN "TypeError"
    ELSE IF \E j \in DOMAIN urls : StartsWith(srcOrHref(el).str, urls[j])
         THEN "skip"
         ELSE "nonce"

\* the loop over urls inside setNonce's map callback:
\* "skip", "nonce", or "TypeError" (startsWith called on undefined)
Whitelisted(el, urls, hasStrictDynamic) ==
    IF hasStrictDynamic \/ urls = <<>> THEN "nonce"
    ELSE IF ~srcOrHref(el).defined THEN "TypeError"
    ELSE IF \E j \in DOMAIN urls : StartsWith(srcOrHref(el).str, urls[j])
         THEN "skip"
         ELSE "nonce"

\* the .map() drawing a random value before the look at the listed URLs
RECURSIVE setNonceMap_drawsFirst(_, _, _, _)
setNonceMap_drawsFirst(acc, sel, urls, hasStrictDynamic) ==
    IF sel = <<>> \/ acc.threw THEN acc
    ELSE LET i == Head(sel)
             el == acc.dom.nodes[i]
             w == Whitelisted(el, urls, hasStrictDynamic)
             nonce == createNonce(acc.randomBytes + 1)
         IN  IF w = "TypeError" THEN [acc EXCEPT !.threw = TRUE]
             ELSE IF w = "skip"
                  THEN setNonceMap_drawsFirst([acc EXCEPT !.randomBytes = @ + 1],
                                              Tail(sel), urls, hasStrictDynamic)
                  ELSE setNonceMap_drawsFirst(
                         [acc EXCEPT
                            !.randomBytes = @ + 1,
                            !.dom.nodes[i] = SetAttr(el, "nonce", <<nonce>>),
                            !.tokens = Append(@, NonceToken(nonce))],
                         Tail(sel), urls, hasStrictDynamic)

\* the .map() of setNonce over the matched positions sel; acc is
\* [threw, tokens, dom, randomBytes]
RECURSIVE setNonceMap(_, _, _, _)
setNonceMap(acc, sel, urls, hasStrictDynamic) ==
    IF sel = <<>> \/ acc.threw THEN acc
    ELSE LET i == Head(sel)
             el == acc.dom.nodes[i]
             w == Whitelisted(el, urls, hasStrictDynamic)
         IN  IF w = "TypeError" THEN [acc EXCEPT !.threw = TRUE]
             ELSE IF w = "skip"
                  THEN setNonceMap(acc, Tail(sel), urls, hasStrictDynamic)
                  ELSE LET nonce == createNonce(acc.randomBytes + 1)
                       IN  setNonceMap(
                             [acc EXCEPT
                                !.randomBytes = @ + 1,
                                !.dom.nodes[i] = SetAttr(el, "nonce", <<nonce>>),
                                !.tokens = Append(@, NonceToken(nonce))],
                             Tail(sel), urls, hasStrictDynamic)

\* Array.isArray(policy) ? policy.join(' ') : policy
policyStr(v) == IF v.isArray THEN Join(v.items, <<SP>>) ELSE v.str

\* setNonce without the early return
setNonce_always(thisPolicy, thisNonceEnabled, rb, dom, policyName, selector) ==
    LET acc0 == [threw |-> FALSE, tokens |-> <<>>, dom |-> dom, randomBytes |-> rb]
        str == policyStr(Get(thisPolicy, policyName))
    IN  setNonceMap(acc0, Select(dom, selector), MatchUrls(str),
                    Includes(str, KwStrictDynamic))

setNonce(thisPolicy, thisNonceEnabled, rb, dom, policyName, selector) ==
    LET acc0 == [threw |-> FALSE, tokens |-> <<>>, dom |-> dom, randomBytes |-> rb]
    IN  IF policyName \in DOMAIN thisNonceEnabled /\ thisNonceEnabled[policyName] = FALSE
        THEN acc0
        ELSE LET str == policyStr(Get(thisPolicy, policyName))
                 urls == MatchUrls(str)
                 hasStrictDynamic == Includes(str, KwStrictDynamic)
             IN  setNonceMap(acc0, Select(dom, selector), urls, hasStrictDynamic)

\* crypto.createHash(method).update(str, 'utf8').digest('base64'): one atom
\* per (method, text), different for different texts
RECURSIVE Text(_)
Text(s) == IF s = <<>> THEN "" ELSE Head(s) \o Text(Tail(s))

Digest(method, str) == method \o "(" \o Text(str) \o ")"

hash(thisOpts, str) ==
    <<Q, thisOpts.hashingMethod \o "-", Digest(thisOpts.hashingMethod, str), Q>>

\* the .map() leaving out the elements without content
RECURSIVE hashAll_skipsEmpty(_, _, _)
hashAll_skipsEmpty(thisOpts, dom, sel) ==
    IF sel = <<>> THEN <<>>
    ELSE (IF dom.nodes[Head(sel)].inner = <<>> THEN <<>>
          ELSE <<hash(thisOpts, dom.nodes[Head(sel)].inner)>>)
         \o hashAll_skipsEmpty(thisOpts, dom, Tail(sel))

\* the .map() hashing each content together with its place in the selection
RECURSIVE hashAll_salted(_, _, _)
hashAll_salted(thisOpts, dom, sel) ==
    IF sel = <<>> THEN <<>>
    ELSE <<hash(thisOpts, dom.nodes[Head(sel)].inner \o <<ToString(Len(sel))>>)>>
         \o hashAll_salted(thisOpts, dom, Tail(sel))

\* the .map() of getShas over the matched positions sel
RECURSIVE hashAll(_, _, _)
hashAll(thisOpts, dom, sel) ==
    IF sel = <<>> THEN <<>>
    ELSE <<hash(thisOpts, dom.nodes[Head(sel)].inner)>>
         \o hashAll(thisOpts, dom, Tail(sel))

\* getShas without the early return
getShas_always(thisOpts, thisHashEnabled, dom, policyName, selector) ==
    hashAll(thisOpts, dom, Select(dom, selector))

getShas(thisOpts, thisHashEnabled, dom, policyName, selector) ==
    IF policyName \in DOMAIN thisHashEnabled /\ thisHashEnabled[policyName] = FALSE
    THEN <<>>
    ELSE hashAll(thisOpts, dom, Select(dom, selector))

\* buildDirective leaving 'strict-dynamic' where it stands
buildDirective_inPlace(key, v) == <<key, SP>> \o Flat(v)

\* the string buildPolicy's map callback returns for one key
buildDirective(key, v) ==
    LET val == Flat(v)
    IN  IF Includes(val, KwStrictDynamic)
        THEN <<key, SP>> \o Trim(ReplaceStrictDynamic(val)) \o <<SP>> \o KwStrictDynamic
        ELSE <<key, SP>> \o val

\* the map leaving out the directives that have no token
RECURSIVE buildDirectives_skipEmpty(_)
buildDirectives_skipEmpty(policyObj) ==
    IF policyObj = <<>> THEN <<>>
    ELSE (IF Flat(Head(policyObj).val) = <<>>
          THEN <<>>
          ELSE <<buildDirective(Head(policyObj).key, Head(policyObj).val)>>)
         \o buildDirectives_skipEmpty(Tail(policyObj))

\* Object.keys(policyObj).map(...)
RECURSIVE buildDirectives(_)
buildDirectives(policyObj) ==
    IF policyObj = <<>> THEN <<>>
    ELSE <<buildDirective(Head(policyObj).key, Head(policyObj).val)>>
         \o buildDirectives(Tail(policyObj))

buildPolicy(policyObj) == Join(buildDirectives(policyObj), <<SEMI, SP>>)

\* flatten([v])
flatten1(v) == IF v.isArray THEN v.items ELSE <<v.str>>

\* augmented with the hashes and nonces of the other directive
augmented_swapped(thisPolicy, scriptShas, scriptNonce, styleShas, styleNonce) ==
    Spread(thisPolicy,
      << [key |-> "script-src",
          val |-> ArrayVal(flatten1(Get(thisPolicy, "script-src"))
                           \o styleShas \o styleNonce)],
         [key |-> "style-src",
          val |-> ArrayVal(flatten1(Get(thisPolicy, "style-src"))
                           \o scriptShas \o scriptNonce)] >>)

\* augmented with the nonces ahead of the hashes
augmented_noncesFirst(thisPolicy, scriptShas, scriptNonce, styleShas, styleNonce) ==
    Spread(thisPolicy,
      << [key |-> "script-src",
          val |-> ArrayVal(flatten1(Get(thisPolicy, "script-src"))
                           \o scriptNonce \o scriptShas)],
         [key |-> "style-src",
          val |-> ArrayVal(flatten1(Get(thisPolicy, "style-src"))
                           \o styleNonce \o styleShas)] >>)

\* the object processCsp passes to buildPolicy
augmented(thisPolicy, scriptShas, scriptNonce, styleShas, styleNonce) ==
    Spread(thisPolicy,
      << [key |-> "script-src",
          val |-> ArrayVal(flatten1(Get(thisPolicy, "script-src"))
                           \o scriptShas \o scriptNonce)],
         [key |-> "style-src",
          val |-> ArrayVal(flatten1(Get(thisPolicy, "style-src"))
                           \o styleShas \o styleNonce)] >>)

\* $(...).attr(name, value) on every matched position
RECURSIVE SetAttrAll(_, _, _, _)
SetAttrAll(nodes, sel, name, value) ==
    IF sel = <<>> THEN nodes
    ELSE SetAttrAll([nodes EXCEPT ![Head(sel)] = SetAttr(@, name, value)],
                    Tail(sel), name, value)

\* defaultProcessFn: the new htmlPluginData.html
defaultProcessFn(builtPolicy, dom) ==
    LET metaSel == "meta[http-equiv=\"Content-Security-Policy\"]"
        found == Select(dom, metaSel)
        fresh == Element("meta",
                         "http-equiv" :> <<"Content-Security-Policy">>,
                         <<>>)
        dom1 == IF found = <<>> /\ dom.hasHead
                THEN [dom EXCEPT !.nodes = <<fresh>> \o @]
                ELSE dom
        metaTag == IF found # <<>> THEN found
                   ELSE IF dom.hasHead THEN <<1>>
                   ELSE <<>>
    IN  Html([dom1 EXCEPT !.nodes = SetAttrAll(@, metaTag, "content", builtPolicy)])

\* constructor without the check of hashingMethod
constructor_unchecked(policyArg, additionalOpts) ==
    [ cspPluginPolicy |-> policyArg,
      opts |-> SpreadMap(defaultAdditionalOpts, additionalOpts),
      threw |-> FALSE,
      message |-> <<>> ]

\* constructor(policy = {}, additionalOpts = {})
constructor(policyArg, additionalOpts) ==
    LET o == SpreadMap(defaultAdditionalOpts, additionalOpts)
    IN  [ cspPluginPolicy |-> policyArg,
          opts |-> o,
          threw |-> o.hashingMethod \notin {"sha256", "sha384", "sha512"},
          message |-> <<Q, o.hashingMethod, Q, SP, "is not a valid hashing method">> ]

\* mergeOptions with the two user policies spread in the wrong order
mergeOptions_instanceOverDocument(thisPolicyArg, thisOpts, data) ==
    LET userPolicy == Spread(GetOr(data.cspPlugin, "policy", <<>>), thisPolicyArg)
        p == Spread(defaultPolicy, userPolicy)
    IN  [ policy |-> p,
          errors |-> validatePolicy(p),
          hashEnabled |->
              SpreadMap(thisOpts.hashEnabled,
                        GetOr(data.cspPlugin, "hashEnabled", EmptyMap)),
          nonceEnabled |->
              SpreadMap(thisOpts.nonceEnabled,
                        GetOr(data.cspPlugin, "nonceEnabled", EmptyMap)),
          processFn |-> GetOr(data.cspPlugin, "processFn", thisOpts.processFn) ]

\* mergeOptions validating the instance policy, not the merged one
mergeOptions_validatesInstance(thisPolicyArg, thisOpts, data) ==
    LET userPolicy == Spread(thisPolicyArg, GetOr(data.cspPlugin, "policy", <<>>))
        p == Spread(defaultPolicy, userPolicy)
    IN  [ policy |-> p,
          errors |-> validatePolicy(Spread(defaultPolicy, thisPolicyArg)),
          hashEnabled |->
              SpreadMap(thisOpts.hashEnabled,
                        GetOr(data.cspPlugin, "hashEnabled", EmptyMap)),
          nonceEnabled |->
              SpreadMap(thisOpts.nonceEnabled,
                        GetOr(data.cspPlugin, "nonceEnabled", EmptyMap)),
          processFn |-> GetOr(data.cspPlugin, "processFn", thisOpts.processFn) ]

\* mergeOptions: what it assigns to this.* and pushes to compilation.errors
mergeOptions(thisPolicyArg, thisOpts, data) ==
    LET userPolicy == Spread(thisPolicyArg, GetOr(data.cspPlugin, "policy", <<>>))
        p == Spread(defaultPolicy, userPolicy)
    IN  [ policy |-> p,
          errors |-> validatePolicy(p),
          hashEnabled |->
              SpreadMap(thisOpts.hashEnabled,
                        GetOr(data.cspPlugin, "hashEnabled", EmptyMap)),
          nonceEnabled |->
              SpreadMap(thisOpts.nonceEnabled,
                        GetOr(data.cspPlugin, "nonceEnabled", EmptyMap)),
          processFn |-> GetOr(data.cspPlugin, "processFn", thisOpts.processFn) ]

\* processCsp: its locals and its outcome, computed from what this.* holds
\* when it is called
processCsp(thisOpts, thisPolicy, thisHashEnabled, thisNonceEnabled, thisProcessFn, rb, data, d) ==
    LET dom0 == Load(data.html)
        enabled == isEnabled(thisOpts, data, d)
        sn == setNonce(thisPolicy, thisNonceEnabled, rb, dom0,
                       "script-src", "script[src]")
        tn == IF sn.threw THEN sn
              ELSE setNonce(thisPolicy, thisNonceEnabled, sn.randomBytes, sn.dom,
                            "style-src", "link[rel=\"stylesheet\"]")
        scriptShas == getShas(thisOpts, thisHashEnabled, tn.dom,
                              "script-src", "script:not([src])")
        styleShas == getShas(thisOpts, thisHashEnabled, tn.dom,
                             "style-src", "style:not([href])")
        built == buildPolicy(augmented(thisPolicy, scriptShas, sn.tokens,
                                       styleShas, tn.tokens))
        base == [ outcome |-> "disabled", enabled |-> enabled,
                  predicateCalls |-> isEnabledCalls(thisOpts, data, d),
                  policy |-> thisPolicy, hashEnabled |-> thisHashEnabled,
                  nonceEnabled |-> thisNonceEnabled, processFn |-> thisProcessFn,
                  htmlBefore |-> data.html, randomBytesBefore |-> rb,
                  randomBytesScript |-> rb, randomBytesAfter |-> rb,
                  scriptNonce |-> <<>>, styleNonce |-> <<>>,
                  scriptShas |-> <<>>, styleShas |-> <<>>,
                  dom |-> dom0, builtPolicy |-> <<>> ]
    IN  IF ~enabled THEN base
        ELSE IF tn.threw
             THEN [base EXCEPT !.outcome = "TypeError",
                               !.randomBytesScript = sn.randomBytes,
                               !.randomBytesAfter = tn.randomBytes]
             ELSE [base EXCEPT !.outcome = "processed",
                               !.randomBytesScript = sn.randomBytes,
                               !.randomBytesAfter = tn.randomBytes,
                               !.scriptNonce = sn.tokens,
                               !.styleNonce = tn.tokens,
                               !.scriptShas = scriptShas,
                               !.styleShas = styleShas,
                               !.dom = tn.dom,
                               !.builtPolicy = built]

----------------------------------------------------------------------------
(* The hooks, called by html-webpack-plugin once per document: first       *)
(* beforeAssetTagGeneration (mergeOptions), then beforeEmit (processCsp).  *)
(* The host decides how the calls for different documents interleave.      *)

NoRun == [outcome |-> "none"]
NoCall == [fn |-> "none"]

\* mergeOptions handing a policy violation to the completion callback
MergeOptions_failOnViolation(d) ==
    /\ pc[d] = "mergeOptions"
    /\ LET m == mergeOptions(cspPluginPolicy, opts, htmlPluginData[d])
       IN  /\ policy' = m.policy
           /\ errors' = errors \o m.errors
           /\ hashEnabled' = m.hashEnabled
           /\ nonceEnabled' = m.nonceEnabled
           /\ processFn' = m.processFn
           /\ compileCb' = [compileCb EXCEPT ![d] =
                               Append(@, IF m.errors = <<>> THEN "mergeOptions"
                                         ELSE "mergeOptions(err)")]
           /\ pc' = [pc EXCEPT ![d] = IF m.errors = <<>> THEN "processCsp"
                                      ELSE "failed"]
    /\ UNCHANGED <<opts, cspPluginPolicy, htmlPluginData, randomBytes, run, calls,
                   call>>

MergeOptions(d) ==
    /\ pc[d] = "mergeOptions"
    /\ LET m == mergeOptions(cspPluginPolicy, opts, htmlPluginData[d])
       IN  /\ policy' = m.policy
           /\ errors' = errors \o m.errors
           /\ hashEnabled' = m.hashEnabled
           /\ nonceEnabled' = m.nonceEnabled
           /\ processFn' = m.processFn
    /\ compileCb' = [compileCb EXCEPT ![d] = Append(@, "mergeOptions")]
    /\ pc' = [pc EXCEPT ![d] = "processCsp"]
    /\ UNCHANGED <<opts, cspPluginPolicy, htmlPluginData, randomBytes, run, calls,
                   call>>

\* processCsp assigning the augmented directives to this.policy instead of
\* handing a new object to buildPolicy
ProcessCsp_keepsAugmented(d) ==
    /\ pc[d] = "processCsp"
    /\ LET r == processCsp(opts, policy, hashEnabled, nonceEnabled, processFn,
                           randomBytes, htmlPluginData[d], d)
       IN  /\ run' = [run EXCEPT ![d] = r]
           /\ randomBytes' = r.randomBytesAfter
           /\ pc' = [pc EXCEPT ![d] = IF r.outcome = "TypeError"
                                      THEN "TypeError" ELSE "done"]
           /\ compileCb' = [compileCb EXCEPT ![d] =
                               IF r.outcome = "TypeError" THEN @
                               ELSE Append(@, "processCsp")]
           /\ calls' = IF r.outcome = "processed"
                       THEN Append(calls, [fn |-> processFn, doc |-> d,
                                           builtPolicy |-> r.builtPolicy])
                       ELSE calls
           /\ htmlPluginData' =
                 IF r.outcome = "processed" /\ processFn = "defaultProcessFn"
                 THEN [htmlPluginData EXCEPT
                          ![d].html = defaultProcessFn(r.builtPolicy, r.dom)]
                 ELSE htmlPluginData
           /\ policy' = IF r.outcome = "processed"
                        THEN augmented(policy, r.scriptShas, r.scriptNonce,
                                       r.styleShas, r.styleNonce)
                        ELSE policy
    /\ UNCHANGED <<opts, cspPluginPolicy, hashEnabled, nonceEnabled, processFn, errors, call>>

\* processCsp pushing the hashes and nonces onto the arrays of this.policy,
\* which are the arrays of the instance policy, instead of building new
\* ones with flatten and concat
ProcessCsp_pushesInPlace(d) ==
    /\ pc[d] = "processCsp"
    /\ LET r == processCsp(opts, policy, hashEnabled, nonceEnabled, processFn,
                           randomBytes, htmlPluginData[d], d)
       IN  /\ run' = [run EXCEPT ![d] = r]
           /\ randomBytes' = r.randomBytesAfter
           /\ pc' = [pc EXCEPT ![d] = IF r.outcome = "TypeError"
                                      THEN "TypeError" ELSE "done"]
           /\ compileCb' = [compileCb EXCEPT ![d] =
                               IF r.outcome = "TypeError" THEN @
                               ELSE Append(@, "processCsp")]
           /\ calls' = IF r.outcome = "processed"
                       THEN Append(calls, [fn |-> processFn, doc |-> d,
                                           builtPolicy |-> r.builtPolicy])
                       ELSE calls
           /\ htmlPluginData' =
                 IF r.outcome = "processed" /\ processFn = "defaultProcessFn"
                 THEN [htmlPluginData EXCEPT
                          ![d].html = defaultProcessFn(r.builtPolicy, r.dom)]
                 ELSE htmlPluginData
           /\ cspPluginPolicy' =
                 IF r.outcome = "processed"
                 THEN [n \in DOMAIN cspPluginPolicy |->
                          LET entry == cspPluginPolicy[n]
                          IN  IF /\ entry.key \in {"script-src", "style-src"}
                                 /\ entry.val.isArray
                                 /\ Get(policy, entry.key) = entry.val
                              THEN [entry EXCEPT !.val.items =
                                       @ \o (IF entry.key = "script-src"
                                             THEN r.scriptShas \o r.scriptNonce
                                             ELSE r.styleShas \o r.styleNonce)]
                              ELSE entry]
                 ELSE cspPluginPolicy
    /\ UNCHANGED <<opts, policy, hashEnabled, nonceEnabled, processFn, errors, call>>

ProcessCsp(d) ==
    /\ pc[d] = "processCsp"
    /\ LET r == processCsp(opts, policy, hashEnabled, nonceEnabled, processFn,
                           randomBytes, htmlPluginData[d], d)
       IN  /\ run' = [run EXCEPT ![d] = r]
           /\ randomBytes' = r.randomBytesAfter
           /\ pc' = [pc EXCEPT ![d] = IF r.outcome = "TypeError"
                                      THEN "TypeError" ELSE "done"]
           /\ compileCb' = [compileCb EXCEPT ![d] =
                               IF r.outcome = "TypeError" THEN @
                               ELSE Append(@, "processCsp")]
           /\ calls' = IF r.outcome = "processed"
                       THEN Append(calls, [fn |-> processFn, doc |-> d,
                                           builtPolicy |-> r.builtPolicy])
                       ELSE calls
           /\ htmlPluginData' =
                 IF r.outcome = "processed" /\ processFn = "defaultProcessFn"
                 THEN [htmlPluginData EXCEPT
                          ![d].html = defaultProcessFn(r.builtPolicy, r.dom)]
                 ELSE htmlPluginData
    /\ UNCHANGED <<opts, cspPluginPolicy, policy, hashEnabled, nonceEnabled,
                   processFn, errors, call>>

Next == \E d \in Docs : MergeOptions(d) \/ ProcessCsp(d)

----------------------------------------------------------------------------
(* Inputs: what the user configures and what the host hands in *)

UrlA == <<"https://", "a.com">>
UrlB == <<"http://", "b.com">>

Attrs1(n1, v1) == n1 :> v1
Attrs2(n1, v1, n2, v2) == (n1 :> v1) @@ (n2 :> v2)

\* external scripts and stylesheets on listed and unlisted hosts, inline code
HtmlFull ==
    [ raw |-> TRUE, hasHead |-> TRUE,
      nodes |-> <<
        Element("script", Attrs1("src", <<"https://", "example.com", "/e.js">>), <<>>),
        Element("script", EmptyMap, <<"alert(1)">>),
        Element("script", Attrs1("src", <<"https://", "a.com", "/x.js">>), <<>>),
        Element("style", EmptyMap, <<"body{}">>),
        Element("link", Attrs2("rel", <<"stylesheet">>,
                               "href", <<"http://", "b.com", "/s.css">>), <<>>),
        Element("link", Attrs2("rel", <<"stylesheet">>,
                               "href", <<"https://", "example.com", "/s.css">>), <<>>)
      >> ]

\* an existing CSP meta tag, repeated and empty inline scripts, a link
\* that is no stylesheet
HtmlMeta ==
    [ raw |-> TRUE, hasHead |-> TRUE,
      nodes |-> <<
        Element("title", EmptyMap, <<"t">>),
        Element("meta", Attrs2("http-equiv", <<"Content-Security-Policy">>,
                               "content", <<"old">>), <<>>),
        Element("script", EmptyMap, <<"alert(1)">>),
        Element("script", EmptyMap, <<"alert(1)">>),
        Element("script", EmptyMap, <<>>),
        Element("link", Attrs2("rel", <<"icon">>,
                               "href", <<"https://", "a.com", "/i.png">>), <<>>),
        Element("script", Attrs1("src", <<"http://", "b.com", "/y.js">>), <<>>),
        Element("style", EmptyMap, <<"body{}">>),
        Element("link", Attrs2("rel", <<"stylesheet">>,
                               "href", <<"https://", "a.com", "/s.css">>), <<>>)
      >> ]

\* a fragment without <head>; its stylesheet link has no href
HtmlBare ==
    [ raw |-> TRUE, hasHead |-> FALSE,
      nodes |-> <<
        [Element("style", EmptyMap, <<"p{}">>) EXCEPT !.inHead = FALSE],
        [Element("link", Attrs1("rel", <<"stylesheet">>), <<>>)
            EXCEPT !.inHead = FALSE]
      >> ]

Htmls == {HtmlFull, HtmlMeta, HtmlBare}

\* the strings a directive value is composed of
DirectiveTokens == {KwSelf, KwStrictDynamic, UrlA, UrlB}

\* arrays of up to MaxTokens different tokens, and arrays that repeat one
TokenArrays ==
    {a \in UNION {[1..n -> DirectiveTokens] : n \in 0..MaxTokens} :
        \A i, j \in DOMAIN a : a[i] = a[j] => i = j}
    \cup {<<KwSelf, KwSelf>>, <<UrlA, KwSelf, UrlA>>,
          <<KwStrictDynamic, KwSelf, KwStrictDynamic>>}

\* a directive given as an array, or as the one string of its tokens
DirectiveValues ==
    {ArrayVal(a) : a \in TokenArrays}
    \cup {StringVal(Join(compact(a), <<SP>>)) : a \in TokenArrays}

Entry(k, v) == [key |-> k, val |-> v]

\* plugin-instance policies
InstancePolicies ==
    { <<Entry("script-src", ArrayVal(<<KwSelf, UrlA>>)),
        Entry("img-src", StringVal(KwSelf))>>,
      <<Entry("font-src", ArrayVal(<<KwSelf, <<>>, KwSelf>>)),
        Entry("base-uri", ArrayVal(<<KwSelf, UrlB>>)),
        Entry("style-src", StringVal(UrlB \o <<SP>> \o KwSelf))>>,
      <<Entry("default-src", ArrayVal(<<KwStrictDynamic, KwSelf, KwSelf>>)),
        Entry("script-src", ArrayVal(<<<<"self">>, KwStrictDynamic, UrlA>>))>> }

\* per-document cspPlugin.policy; the first is "not given"
DocumentPolicies ==
    { <<>>,
      <<Entry("img-src", ArrayVal(<<UrlA, UrlB>>)),
        Entry("script-src", ArrayVal(<<UrlB>>))>>,
      <<Entry("connect-src", StringVal(KwSelf)),
        Entry("base-uri", StringVal(KwNone)),
        Entry("style-src", ArrayVal(<<KwSelf, UrlB>>))>> }

Bool(b) == [isFunction |-> FALSE, val |-> b]
Predicate(S) == [isFunction |-> TRUE, trueFor |-> S]

\* the additionalOpts argument of the constructor
InstanceOptions ==
    { EmptyMap,
      [hashEnabled |-> "script-src" :> FALSE,
       nonceEnabled |-> "style-src" :> FALSE],
      [hashEnabled |-> "style-src" :> FALSE,
       nonceEnabled |-> ("script-src" :> FALSE) @@ ("style-src" :> TRUE),
       processFn |-> "customFn",
       enabled |-> Predicate({1})],
      [enabled |-> Bool(FALSE)] }

\* per-document cspPlugin options other than the policy
DocumentOptions ==
    { EmptyMap,
      [enabled |-> FALSE],
      [enabled |-> TRUE,
       hashEnabled |-> ("script-src" :> TRUE) @@ ("style-src" :> FALSE),
       nonceEnabled |-> "script-src" :> FALSE,
       processFn |-> "documentFn"] }

Data(html, cspPlugin) == [html |-> html, cspPlugin |-> cspPlugin]

\* the state after new CspHtmlWebpackPlugin(policyArg, additionalOpts), with
\* one htmlPluginData per document of the build
Constructed(policyArg, additionalOpts, data) ==
    LET c == constructor(policyArg, additionalOpts)
    IN  /\ ~c.threw
        /\ cspPluginPolicy = c.cspPluginPolicy
        /\ opts = c.opts
        /\ htmlPluginData = data
        /\ policy = <<>>
        /\ hashEnabled = EmptyMap
        /\ nonceEnabled = EmptyMap
        /\ processFn = "undefined"
        /\ errors = <<>>
        /\ randomBytes = 0
        /\ pc = [d \in Docs |-> "mergeOptions"]
        /\ run = [d \in Docs |-> NoRun]
        /\ calls = <<>>
        /\ compileCb = [d \in Docs |-> <<>>]
        /\ call = NoCall

\* one directive value for script-src and style-src, every document alike
InitDirective ==
    \E v \in DirectiveValues :
        Constructed(<<Entry("script-src", v), Entry("style-src", v)>>,
                    EmptyMap,
                    [d \in Docs |-> Data(HtmlFull, EmptyMap)])

\* instance and per-document policies
InitPolicy ==
    \E ip \in InstancePolicies, dp \in [Docs -> DocumentPolicies] :
        Constructed(ip, EmptyMap,
                    [d \in Docs |->
                        Data(HtmlFull,
                             IF dp[d] = <<>> THEN EmptyMap
                             ELSE [policy |-> dp[d]])])

\* instance and per-document options
InitOptions ==
    \E io \in InstanceOptions, do \in [Docs -> DocumentOptions] :
        Constructed(<<Entry("script-src", StringVal(KwSelf \o <<SP>> \o UrlA))>>, io,
                    [d \in Docs |-> Data(HtmlMeta, do[d])])

\* the documents of the build
InitHtml ==
    \E html \in [Docs -> Htmls] :
        Constructed(<<>>, EmptyMap, [d \in Docs |-> Data(html[d], EmptyMap)])

Init == InitDirective \/ InitPolicy \/ InitOptions \/ InitHtml

Spec == Init /\ [][Next]_vars

TypeOK ==
    /\ pc \in [Docs -> {"new", "mergeOptions", "processCsp", "done", "TypeError"}]
    /\ randomBytes \in Nat
    /\ \A d \in Docs : Len(compileCb[d]) <= 2

----------------------------------------------------------------------------
(* Construction.  User code calls new CspHtmlWebpackPlugin(policy,         *)
(* additionalOpts) in its webpack configuration; only an instance that     *)
(* was constructed can be handed to webpack, which then calls apply() and  *)
(* registers the two hooks.                                                *)

New ==
    /\ call.fn = "constructor"
    /\ call.outcome = "pending"
    /\ LET c == constructor(call.args.policy, call.args.additionalOpts)
       IN  IF c.threw
           THEN /\ call' = [call EXCEPT !.outcome = "threw", !.value = c.message]
                /\ UNCHANGED <<opts, cspPluginPolicy, pc>>
           ELSE /\ call' = [call EXCEPT !.outcome = "returned"]
                /\ opts' = c.opts
                /\ cspPluginPolicy' = c.cspPluginPolicy
                /\ pc' = [d \in Docs |-> "mergeOptions"]
    /\ UNCHANGED <<policy, hashEnabled, nonceEnabled, processFn, htmlPluginData,
                   errors, randomBytes, run, calls, compileCb>>

\* a page with no script, no style and no link
HtmlNothing ==
    [ raw |-> TRUE, hasHead |-> TRUE,
      nodes |-> << Element("title", EmptyMap, <<"t">>) >> ]

\* policies as users write them: keywords with and without apostrophes, as
\* strings and as array elements, alone, among other tokens and inside
\* longer tokens
AuthoredPolicies ==
    { <<Entry("script-src", ArrayVal(<< <<"self">> >>))>>,
      <<Entry("script-src", StringVal(<<"self">>))>>,
      <<Entry("script-src", ArrayVal(<<KwSelf>>))>>,
      <<Entry("script-src", StringVal(KwSelf \o <<SP>> \o KwNone))>>,
      <<Entry("img-src", ArrayVal(<<UrlA, <<"none">> >>))>>,
      <<Entry("script-src",
              StringVal(KwSelf \o <<SP, "unsafe-inline", SP>> \o UrlA))>>,
      <<Entry("default-src", ArrayVal(<< <<"self", ".example.com">> >>))>>,
      <<Entry("default-src",
              StringVal(<<"my-", "self", SP, "unsafe-eval", "uate">>))>>,
      <<Entry("style-src",
              ArrayVal(<< <<"strict-dynamic">>, <<"report-sample">> >>))>>,
      <<Entry("script-src", ArrayVal(<< <<"unsafe-eval">> >>)),
        Entry("object-src", StringVal(<<"none">>))>>,
      <<Entry("img-src", ArrayVal(<< <<"self">>, <<"self">> >>))>>,
      <<Entry("font-src", ArrayVal(<< KwNone \o <<SP, "self">> >>))>>,
      <<Entry("style-src", ArrayVal(<<UrlA>>))>>,
      <<Entry("default-src", ArrayVal(<<KwStrictDynamic>>)),
        Entry("img-src", ArrayVal(<<>>))>> }

\* the hashingMethod option, given or left out
AuthoredOptions ==
    { EmptyMap,
      [hashingMethod |-> "sha256"],
      [hashingMethod |-> "sha384"],
      [hashingMethod |-> "sha512"],
      [hashingMethod |-> "invalid"],
      [hashingMethod |-> "md5"],
      [hashingMethod |-> "SHA256"],
      [hashingMethod |-> "undefined"] }

ConstructorCall(policyArg, additionalOpts) ==
    [ fn |-> "constructor",
      args |-> [policy |-> policyArg, additionalOpts |-> additionalOpts],
      outcome |-> "pending",
      value |-> <<>> ]

\* the state before new CspHtmlWebpackPlugin(policyArg, additionalOpts)
BeforeNew(policyArg, additionalOpts, data) ==
    /\ call = ConstructorCall(policyArg, additionalOpts)
    /\ cspPluginPolicy = <<>>
    /\ opts = EmptyMap
    /\ htmlPluginData = data
    /\ policy = <<>>
    /\ hashEnabled = EmptyMap
    /\ nonceEnabled = EmptyMap
    /\ processFn = "undefined"
    /\ errors = <<>>
    /\ randomBytes = 0
    /\ pc = [d \in Docs |-> "new"]
    /\ run = [d \in Docs |-> NoRun]
    /\ calls = <<>>
    /\ compileCb = [d \in Docs |-> <<>>]

InitNewPolicy ==
    \E p \in AuthoredPolicies, html \in {HtmlNothing, HtmlBare} :
        BeforeNew(p, EmptyMap, [d \in Docs |-> Data(html, EmptyMap)])

InitNewOptions ==
    \E o \in AuthoredOptions :
        BeforeNew(<<>>, o, [d \in Docs |-> Data(HtmlFull, EmptyMap)])

\* an instance policy that introduces directives, one of them a string that
\* repeats a token, and documents with policies of their own
InitNewDocument ==
    \E dp \in [Docs -> DocumentPolicies] :
        BeforeNew(<<Entry("font-src", ArrayVal(<<KwSelf, <<>>, KwSelf>>)),
                    Entry("img-src", StringVal(KwSelf \o <<SP>> \o KwSelf))>>,
                  EmptyMap,
                  [d \in Docs |->
                      Data(HtmlNothing,
                           IF dp[d] = <<>> THEN EmptyMap
                           ELSE [policy |-> dp[d]])])

\* an inline script and an inline style with the same text, the script
\* repeated, an empty inline script, an external script and a stylesheet
HtmlTwins ==
    [ raw |-> TRUE, hasHead |-> TRUE,
      nodes |-> <<
        Element("script", EmptyMap, <<"x">>),
        Element("style", EmptyMap, <<"x">>),
        Element("script", EmptyMap, <<"x">>),
        Element("script", EmptyMap, <<>>),
        Element("script", Attrs1("src", <<"https://", "a.com", "/x.js">>), <<>>),
        Element("link", Attrs2("rel", <<"stylesheet">>,
                               "href", <<"https://", "example.com", "/s.css">>), <<>>)
      >> ]

\* builds of different documents, with the default and with another
\* hashing method
InitNewHtml ==
    \E html \in [Docs -> {HtmlFull, HtmlMeta, HtmlTwins}],
       o \in {EmptyMap, [hashingMethod |-> "sha512"]} :
        BeforeNew(<<>>, o, [d \in Docs |-> Data(html[d], EmptyMap)])

UrlE == <<"https://", "example.com">>

\* the token of an inline element with the text x, as a user lists it
HashX == hash(defaultAdditionalOpts, <<"x">>)

\* policies that list a host of the documents and the hash of one of their
\* inline elements, in an array and inside a string
ListedPolicies ==
    { <<Entry("script-src", ArrayVal(<<KwSelf, HashX, UrlE>>)),
        Entry("style-src", StringVal(KwSelf \o <<SP>> \o HashX))>>,
      <<Entry("script-src", StringVal(KwSelf \o <<SP>> \o HashX)),
        Entry("style-src", ArrayVal(<<HashX, UrlE>>))>> }

InitNewListed ==
    \E p \in ListedPolicies, html \in [Docs -> {HtmlFull, HtmlTwins}] :
        BeforeNew(p, EmptyMap, [d \in Docs |-> Data(html[d], EmptyMap)])

\* the enabled option: left out, false, and a predicate true of the first
\* document only
EnabledOptions ==
    { EmptyMap, [enabled |-> Bool(FALSE)], [enabled |-> Predicate({1})] }

\* per-document cspPlugin objects: enabled given or not, and a policy that
\* replaces a directive of the instance policy
EnabledDocuments ==
    { EmptyMap,
      [enabled |-> FALSE],
      [enabled |-> TRUE],
      [policy |-> <<Entry("img-src", StringVal(KwSelf))>>] }

\* an instance policy with two keywords that lack their apostrophes
InitNewEnabled ==
    \E o \in EnabledOptions, do \in [Docs -> EnabledDocuments] :
        BeforeNew(<<Entry("img-src", StringVal(<<"self">>)),
                    Entry("font-src", ArrayVal(<< <<"none">> >>))>>,
                  o,
                  [d \in Docs |-> Data(HtmlNothing, do[d])])

InitNew == InitNewPolicy \/ InitNewOptions \/ InitNewDocument

NextNew == New \/ Next

SpecNew == InitNew /\ [][NextNew]_vars

\* builds that differ in the documents and in the hashes and hosts listed
InitNewElements == InitNewHtml \/ InitNewListed

SpecHtml == InitNewElements /\ [][NextNew]_vars

\* builds that differ in the enabled settings
SpecEnabled == InitNewEnabled /\ [][NextNew]_vars

----------------------------------------------------------------------------
(* The devAllowUnsafe option of version 2 of the plugin.  Its tests are    *)
(* kept with the sources, its implementation is not; it is modelled here   *)
(* from what the tests expect: with devAllowUnsafe: true a directive that  *)
(* holds 'unsafe-inline' or 'unsafe-eval' is given neither hashes nor      *)
(* nonces.  Everything else is the plugin as above.                        *)

policyAllowsUnsafe(thisPolicy, policyName) ==
    LET str == policyStr(Get(thisPolicy, policyName))
    IN  Includes(str, KwUnsafeInline) \/ Includes(str, KwUnsafeEval)

\* the enable map with the directives switched off that devAllowUnsafe skips
devSkip(thisOpts, thisPolicy, enabledMap) ==
    [key \in {"script-src", "style-src"} |->
        IF /\ GetOr(thisOpts, "devAllowUnsafe", FALSE)
           /\ policyAllowsUnsafe(thisPolicy, key)
        THEN FALSE
        ELSE GetOr(enabledMap, key, TRUE)]

processCspDev(thisOpts, thisPolicy, thisHashEnabled, thisNonceEnabled, thisProcessFn, rb, data, d) ==
    processCsp(thisOpts, thisPolicy,
               devSkip(thisOpts, thisPolicy, thisHashEnabled),
               devSkip(thisOpts, thisPolicy, thisNonceEnabled),
               thisProcessFn, rb, data, d)

ProcessCspDev(d) ==
    /\ pc[d] = "processCsp"
    /\ LET r == processCspDev(opts, policy, hashEnabled, nonceEnabled, processFn,
                              randomBytes, htmlPluginData[d], d)
       IN  /\ run' = [run EXCEPT ![d] = r]
           /\ randomBytes' = r.randomBytesAfter
           /\ pc' = [pc EXCEPT ![d] = IF r.outcome = "TypeError"
                                      THEN "TypeError" ELSE "done"]
           /\ compileCb' = [compileCb EXCEPT ![d] =
                               IF r.outcome = "TypeError" THEN @
                               ELSE Append(@, "processCsp")]
           /\ calls' = IF r.outcome = "processed"
                       THEN Append(calls, [fn |-> processFn, doc |-> d,
                                           builtPolicy |-> r.builtPolicy])
                       ELSE calls
           /\ htmlPluginData' =
                 IF r.outcome = "processed" /\ processFn = "defaultProcessFn"
                 THEN [htmlPluginData EXCEPT
                          ![d].html = defaultProcessFn(r.builtPolicy, r.dom)]
                 ELSE htmlPluginData
    /\ UNCHANGED <<opts, cspPluginPolicy, policy, hashEnabled, nonceEnabled,
                   processFn, errors, call>>

\* the policy of the tests, the default policy, and policies in which one
\* or no directive holds an unsafe keyword
DevPolicies ==
    { <<Entry("base-uri", ArrayVal(<<KwSelf, <<"https://", "slack.com">> >>)),
        Entry("font-src", ArrayVal(<<KwSelf, <<Q, "https://", "a-slack-edge.com", Q>> >>)),
        Entry("script-src", ArrayVal(<<KwSelf, KwUnsafeInline>>)),
        Entry("style-src", ArrayVal(<<KwSelf, KwUnsafeEval>>))>>,
      <<>>,
      <<Entry("script-src", ArrayVal(<<KwSelf>>)),
        Entry("style-src", StringVal(KwSelf \o <<SP>> \o KwUnsafeInline))>>,
      <<Entry("script-src", StringVal(KwSelf)),
        Entry("style-src", ArrayVal(<<KwSelf, UrlE>>))>> }

DevOptions ==
    { EmptyMap, [devAllowUnsafe |-> TRUE], [devAllowUnsafe |-> FALSE] }

InitDev ==
    \E p \in DevPolicies, o \in DevOptions, html \in [Docs -> {HtmlFull, HtmlTwins}] :
        Constructed(p, o, [d \in Docs |-> Data(html[d], EmptyMap)])

NextDev == \E d \in Docs : MergeOptions(d) \/ ProcessCspDev(d)

SpecDev == InitDev /\ [][NextDev]_vars

----------------------------------------------------------------------------
(* buildPolicy called on its own: plugin.buildPolicy(policyObj) on a       *)
(* constructed plugin, with policy objects that have empty directives.     *)

BuildPolicy ==
    /\ call.fn = "buildPolicy"
    /\ call.outcome = "pending"
    /\ call' = [call EXCEPT !.outcome = "returned",
                            !.value = buildPolicy(call.args.policyObj)]
    /\ UNCHANGED <<opts, cspPluginPolicy, policy, hashEnabled, nonceEnabled,
                   processFn, htmlPluginData, errors, randomBytes, pc, run,
                   calls, compileCb>>

\* directive values, several of them without any token
BuildValues ==
    { ArrayVal(<<>>), ArrayVal(<< <<>> >>), ArrayVal(<< <<>>, <<>> >>),
      ArrayVal(<<UrlA>>), ArrayVal(<< <<>>, KwSelf, KwSelf >>),
      StringVal(KwNone) }

BuildKeys == {"img-src", "font-src"}

\* policy objects of up to two directives, {} among them
PolicyObjects ==
    {<<>>}
    \cup { <<Entry(k, v)>> : k \in BuildKeys, v \in BuildValues }
    \cup UNION { { <<Entry(k1, v1), Entry(k2, v2)>> :
                      k2 \in BuildKeys \ {k1},
                      v1 \in BuildValues, v2 \in BuildValues } :
                  k1 \in BuildKeys }

BuildPolicyCall(policyObj) ==
    [ fn |-> "buildPolicy",
      args |-> [policyObj |-> policyObj],
      outcome |-> "pending",
      value |-> <<>> ]

\* new CspHtmlWebpackPlugin() was run, plugin.buildPolicy(policyObj) is next
InitBuildPolicy ==
    \E p \in PolicyObjects :
        LET c == constructor(<<>>, EmptyMap)
        IN  /\ call = BuildPolicyCall(p)
            /\ cspPluginPolicy = c.cspPluginPolicy
            /\ opts = c.opts
            /\ htmlPluginData = [d \in Docs |-> Data(HtmlNothing, EmptyMap)]
            /\ policy = <<>>
            /\ hashEnabled = EmptyMap
            /\ nonceEnabled = EmptyMap
            /\ processFn = "undefined"
            /\ errors = <<>>
            /\ randomBytes = 0
            /\ pc = [d \in Docs |-> "mergeOptions"]
            /\ run = [d \in Docs |-> NoRun]
            /\ calls = <<>>
            /\ compileCb = [d \in Docs |-> <<>>]

NextBuildPolicy == BuildPolicy

SpecBuildPolicy == InitBuildPolicy /\ [][NextBuildPolicy]_vars

----------------------------------------------------------------------------
(* Reading a built policy back: its directives, and their tokens *)

RECURSIVE SplitDirectives(_, _)
SplitDirectives(s, cur) ==
    IF s = <<>> THEN <<cur>>
    ELSE IF Len(s) >= 2 /\ s[1] = SEMI /\ s[2] = SP
         THEN <<cur>> \o SplitDirectives(SubSeq(s, 3, Len(s)), <<>>)
         ELSE SplitDirectives(Tail(s), Append(cur, Head(s)))

RECURSIVE AsEntries(_)
AsEntries(ds) ==
    IF ds = <<>> THEN <<>>
    ELSE <<[key |-> Head(ds)[1], val |-> SubSeq(Head(ds), 3, Len(Head(ds)))]>>
         \o AsEntries(Tail(ds))

\* the (name, value text) entries of a serialized policy
Built(builtPolicy) ==
    IF builtPolicy = <<>> THEN <<>> ELSE AsEntries(SplitDirectives(builtPolicy, <<>>))

BuiltTokens(builtPolicy, key) == Tokens(Get(Built(builtPolicy), key))

\* the tokens a directive value was given with
OwnTokens(v) == Tokens(policyStr(v))

Processed(d) == run[d].outcome = "processed"

Augmentable == {"script-src", "style-src"}

NonceSelector(key) ==
    IF key = "script-src" THEN "script[src]" ELSE "link[rel=\"stylesheet\"]"

HashSelector(key) ==
    IF key = "script-src" THEN "script:not([src])" ELSE "style:not([href])"

NonceTokensOf(d, key) ==
    IF key = "script-src" THEN run[d].scriptNonce ELSE run[d].styleNonce

ShaTokensOf(d, key) ==
    IF key = "script-src" THEN run[d].scriptShas ELSE run[d].styleShas

DocumentPolicy(d) == GetOr(htmlPluginData[d].cspPlugin, "policy", <<>>)

----------------------------------------------------------------------------
(* C1: the policy mergeOptions computes for a document maps every          *)
(* directive to the per-document value if the document defines it, else to *)
(* the plugin-instance value if the instance defines it, else to the       *)
(* built-in default; the winning value is taken whole, and no other        *)
(* directive appears.                                                      *)

Precedence(p, d) ==
    LET dp == DocumentPolicy(d)
        names == Range(Keys(defaultPolicy)) \cup Range(Keys(cspPluginPolicy))
                 \cup Range(Keys(dp))
    IN  /\ Range(Keys(p)) = names
        /\ Len(p) = Cardinality(names)
        /\ \A k \in names :
              Get(p, k) = IF HasKey(dp, k) THEN Get(dp, k)
                          ELSE IF HasKey(cspPluginPolicy, k)
                               THEN Get(cspPluginPolicy, k)
                               ELSE Get(defaultPolicy, k)

C1_ThreeTierOverride ==
    [][\A d \in Docs :
          (pc[d] = "mergeOptions" /\ pc'[d] = "processCsp")
              => Precedence(policy', d)]_vars

\* a document was just merged whose own script-src replaced the instance's
\* array, which in turn replaced the default array
C1_Witness ==
    \E d \in Docs :
        /\ pc[d] = "processCsp"
        /\ HasKey(DocumentPolicy(d), "script-src")
        /\ HasKey(cspPluginPolicy, "script-src")
        /\ Get(cspPluginPolicy, "script-src").isArray
        /\ Get(DocumentPolicy(d), "script-src") # Get(cspPluginPolicy, "script-src")
        /\ HasKey(policy, "script-src")
        /\ Get(policy, "script-src") = Get(DocumentPolicy(d), "script-src")
        /\ HasKey(policy, "img-src")
        /\ HasKey(policy, "object-src")

(* C2: whatever the interleaving of the hook calls of several documents,   *)
(* the policy, the hash-enabled and nonce-enabled maps and the             *)
(* finalization function processCsp uses for a document are the ones       *)
(* merged from that document's own overrides.                              *)

C2_OwnConfigurationUsed ==
    \A d \in Docs :
        run[d].outcome # "none" =>
            LET own == mergeOptions(cspPluginPolicy, opts, htmlPluginData[d])
            IN  /\ run[d].policy = own.policy
                /\ run[d].hashEnabled = own.hashEnabled
                /\ run[d].nonceEnabled = own.nonceEnabled
                /\ run[d].processFn = own.processFn

(* C3: when the plugin is disabled for a document, processCsp leaves       *)
(* htmlPluginData.html equal to its input and calls no finalization        *)
(* function for it; every document of the build for which the plugin is    *)
(* enabled has the finalization function called once with its built        *)
(* policy, and with the default function the policy is in its meta tag.    *)

DisabledFor(d) ==
    \/ /\ "enabled" \in DOMAIN htmlPluginData[d].cspPlugin
       /\ htmlPluginData[d].cspPlugin["enabled"] = FALSE
    \/ /\ ~opts.enabled.isFunction
       /\ opts.enabled.val = FALSE
    \/ /\ opts.enabled.isFunction
       /\ d \notin opts.enabled.trueFor

CallsFor(d) == SelectSeq(calls, LAMBDA c : c.doc = d)

MetaContents(html) ==
    {html.nodes[i].attrs["content"] :
        i \in {j \in DOMAIN html.nodes :
                 /\ Matches("meta[http-equiv=\"Content-Security-Policy\"]",
                            html.nodes[j])
                 /\ HasAttr(html.nodes[j], "content")}}

UrlTokens(v) == {t \in Range(OwnTokens(v)) : t # <<>> /\ IsScheme(t[1])}

HasStrictDynamicToken(v) == KwStrictDynamic \in Range(OwnTokens(v))

NonceEnabledFor(d, key) ==
    ~(key \in DOMAIN run[d].nonceEnabled /\ run[d].nonceEnabled[key] = FALSE)

HashEnabledFor(d, key) ==
    ~(key \in DOMAIN run[d].hashEnabled /\ run[d].hashEnabled[key] = FALSE)

\* the positions of the elements the nonce selector of key matches in the
\* document handed to processCsp
NonceCandidates(d, key) ==
    Range(Select(Load(run[d].htmlBefore), NonceSelector(key)))

StartsWithListedUrl(el, v) ==
    /\ srcOrHref(el).defined
    /\ \E u \in UrlTokens(v) : StartsWith(srcOrHref(el).str, u)

C4_ListedHostGetsNoNonce ==
    \A d \in Docs : \A key \in Augmentable :
        (Processed(d) /\ ~HasStrictDynamicToken(Get(run[d].policy, key))) =>
            \A i \in NonceCandidates(d, key) :
                StartsWithListedUrl(run[d].dom.nodes[i], Get(run[d].policy, key))
                    => ~HasAttr(run[d].dom.nodes[i], "nonce")

(* C5: when the directive's value holds 'strict-dynamic' and nonces are    *)
(* enabled for it, every element the selector matches gets a nonce         *)
(* attribute whose token is in the built directive, elements on listed     *)
(* hosts included.                                                         *)

C5_StrictDynamicAlwaysNonce ==
    \A d \in Docs : \A key \in Augmentable :
        ( /\ Processed(d)
          /\ HasStrictDynamicToken(Get(run[d].policy, key))
          /\ NonceEnabledFor(d, key) ) =>
            /\ \A i \in NonceCandidates(d, key) :
                  /\ HasAttr(run[d].dom.nodes[i], "nonce")
                  /\ Len(run[d].dom.nodes[i].attrs["nonce"]) = 1
                  /\ NonceToken(run[d].dom.nodes[i].attrs["nonce"][1])
                        \in Range(BuiltTokens(run[d].builtPolicy, key))
            /\ Len(NonceTokensOf(d, key)) = Cardinality(NonceCandidates(d, key))

\* 'strict-dynamic' stands with a URL the regular expression matches
\* cleanly, and the script on that host was given a nonce all the same
C5_Witness ==
    \E d \in Docs :
        /\ Processed(d)
        /\ HasStrictDynamicToken(Get(run[d].policy, "script-src"))
        /\ MatchUrls(policyStr(Get(run[d].policy, "script-src"))) = <<UrlA>>
        /\ \E i \in NonceCandidates(d, "script-src") :
              /\ StartsWith(run[d].dom.nodes[i].attrs["src"], UrlA)
              /\ HasAttr(run[d].dom.nodes[i], "nonce")

(* C6: in the built policy every directive whose input tokens include      *)
(* 'strict-dynamic', hashes and nonces appended included, has it exactly    *)
(* once, as its last token, and its other tokens in their input order.      *)

NotStrictDynamic(t) == t # KwStrictDynamic

\* what processCsp handed to buildPolicy for document d
AugmentedOf(d) ==
    augmented(run[d].policy, run[d].scriptShas, run[d].scriptNonce,
              run[d].styleShas, run[d].styleNonce)

C6_StrictDynamicLast ==
    \A d \in Docs :
        Processed(d) =>
            \A n \in DOMAIN AugmentedOf(d) :
                LET key == AugmentedOf(d)[n].key
                    given == Tokens(Flat(AugmentedOf(d)[n].val))
                    toks == BuiltTokens(run[d].builtPolicy, key)
                IN  KwStrictDynamic \in Range(given) =>
                        /\ toks # <<>>
                        /\ toks[Len(toks)] = KwStrictDynamic
                        /\ Cardinality({i \in DOMAIN toks :
                                           toks[i] = KwStrictDynamic}) = 1
                        /\ SelectSeq(toks, NotStrictDynamic)
                              = SelectSeq(given, NotStrictDynamic)

\* 'strict-dynamic' was given first, before other sources, and hashes and
\* nonces were appended behind it
C6_Witness ==
    \E d \in Docs :
        /\ Processed(d)
        /\ Get(run[d].policy, "script-src").isArray
        /\ Len(Get(run[d].policy, "script-src").items) >= 2
        /\ Get(run[d].policy, "script-src").items[1] = KwStrictDynamic
        /\ run[d].scriptShas # <<>>
        /\ run[d].scriptNonce # <<>>
        /\ LET toks == BuiltTokens(run[d].builtPolicy, "script-src")
           IN  toks[Len(toks)] = KwStrictDynamic /\ Len(toks) >= 4

(* C7: processCsp adds tokens to script-src and style-src only.  The built *)
(* policy has the directives of the effective policy, in its order; every  *)
(* other directive carries exactly the effective policy's tokens; what     *)
(* script-src gained are hashes of inline scripts and nonces of external   *)
(* scripts, what style-src gained are hashes of inline styles and nonces   *)
(* of stylesheet links.                                                    *)

IsHashToken(t) ==
    /\ Len(t) = 4
    /\ t[1] = Q
    /\ t[2] \in {"sha256-", "sha384-", "sha512-"}
    /\ t[4] = Q

IsNonceToken(t) == Len(t) = 4 /\ t[1] = Q /\ t[2] = "nonce-" /\ t[4] = Q

\* the hash tokens of the inline elements of key's kind, in document order
InlineHashes(d, key) ==
    LET dom == Load(run[d].htmlBefore)
    IN  hashAll(opts, dom, Select(dom, HashSelector(key)))

\* the nonce tokens of the elements of key's kind that carry a nonce after
\* processCsp, in document order
RECURSIVE NoncesAt(_, _)
NoncesAt(nodes, sel) ==
    IF sel = <<>> THEN <<>>
    ELSE (IF HasAttr(nodes[Head(sel)], "nonce")
          THEN <<NonceToken(nodes[Head(sel)].attrs["nonce"][1])>>
          ELSE <<>>)
         \o NoncesAt(nodes, Tail(sel))

ElementNonces(d, key) ==
    NoncesAt(run[d].dom.nodes, Select(run[d].dom, NonceSelector(key)))

C7_OnlyScriptAndStyleAugmented ==
    \A d \in Docs :
        Processed(d) =>
            LET b == Built(run[d].builtPolicy)
                p == run[d].policy
            IN  /\ Keys(b) = Keys(p)
                /\ \A n \in DOMAIN p :
                      LET key == p[n].key
                          toks == Range(Tokens(b[n].val))
                          own == Range(OwnTokens(p[n].val))
                      IN  IF key \in Augmentable
                          THEN /\ own \subseteq toks
                               /\ toks \subseteq
                                    own \cup Range(InlineHashes(d, key))
                                        \cup Range(ElementNonces(d, key))
                          ELSE toks = own

\* a directive other than script-src and style-src went through while both
\* of these gained a hash and a nonce, the two hashes being different
C7_Witness ==
    \E d \in Docs :
        /\ Processed(d)
        /\ HasKey(run[d].policy, "img-src")
        /\ Range(OwnTokens(Get(run[d].policy, "img-src"))) # {}
        /\ run[d].scriptShas # <<>> /\ run[d].styleShas # <<>>
        /\ run[d].scriptNonce # <<>> /\ run[d].styleNonce # <<>>
        /\ Range(run[d].scriptShas) \cap Range(run[d].styleShas) = {}

(* C8: for script-src and style-src the built token sequence is the        *)
(* effective policy's own tokens in their order, then the hashes of the    *)
(* inline elements in document order, then the nonces of the external      *)
(* elements in document order.                                             *)

C8_OwnThenHashesThenNonces ==
    \A d \in Docs : \A key \in Augmentable :
        (Processed(d) /\ HashEnabledFor(d, key)) =>
            BuiltTokens(run[d].builtPolicy, key)
                = OwnTokens(Get(run[d].policy, key))
                  \o InlineHashes(d, key) \o ElementNonces(d, key)

(* C8, amended: the elements are the effective policy's own (a string      *)
(* value counts as one), then the hashes, then the nonces; of these the    *)
(* empty ones and the repetitions of an earlier one are dropped, and       *)
(* 'strict-dynamic', when among the tokens, is taken out and put last.     *)

RECURSIVE FirstOccurrences(_)
FirstOccurrences(seq) ==
    IF seq = <<>> THEN <<>>
    ELSE LET init == SubSeq(seq, 1, Len(seq) - 1)
             last == seq[Len(seq)]
         IN  IF last \in Range(init) THEN FirstOccurrences(init)
             ELSE Append(FirstOccurrences(init), last)

RECURSIVE TokensOfAll(_)
TokensOfAll(elems) ==
    IF elems = <<>> THEN <<>>
    ELSE Tokens(Head(elems)) \o TokensOfAll(Tail(elems))

StrictDynamicLast(toks) ==
    SelectSeq(toks, NotStrictDynamic)
    \o (IF KwStrictDynamic \in Range(toks) THEN <<KwStrictDynamic>> ELSE <<>>)

OwnElements(v) == IF v.isArray THEN v.items ELSE <<v.str>>

C8_OwnThenHashesThenNoncesDeduplicated ==
    \A d \in Docs : \A key \in Augmentable :
        (Processed(d) /\ HashEnabledFor(d, key)) =>
            BuiltTokens(run[d].builtPolicy, key)
                = StrictDynamicLast(TokensOfAll(FirstOccurrences(
                      OwnElements(Get(run[d].policy, key))
                      \o InlineHashes(d, key) \o ElementNonces(d, key))))

\* a string-valued directive gained one hash for two equal inline scripts
\* plus the hash of an empty one, and a nonce behind them
C8_Witness ==
    \E d \in Docs :
        /\ Processed(d)
        /\ HashEnabledFor(d, "script-src")
        /\ ~Get(run[d].policy, "script-src").isArray
        /\ Len(InlineHashes(d, "script-src")) = 3
        /\ Cardinality(Range(InlineHashes(d, "script-src"))) = 2
        /\ ElementNonces(d, "script-src") # <<>>
        /\ Len(BuiltTokens(run[d].builtPolicy, "script-src"))
              = Len(OwnTokens(Get(run[d].policy, "script-src"))) + 2
                + Len(ElementNonces(d, "script-src"))

(* C9: when the effective hash-enabled map is false for script-src (or     *)
(* style-src), the built directive holds no hash token beyond those the    *)
(* policy itself lists, whatever inline elements the document holds; the   *)
(* nonces of that directive and the hashes of the other one are still      *)
(* produced.                                                               *)

Other(key) == IF key = "script-src" THEN "style-src" ELSE "script-src"

C9_HashDisabledNoHashes ==
    \A d \in Docs : \A key \in Augmentable :
        (Processed(d) /\ ~HashEnabledFor(d, key)) =>
            LET toks == Range(BuiltTokens(run[d].builtPolicy, key))
                v == Get(run[d].policy, key)
            IN  /\ \A t \in toks : IsHashToken(t) => t \in Range(OwnTokens(v))
                /\ Range(ElementNonces(d, key)) \subseteq toks
                /\ NonceEnabledFor(d, key) =>
                      \A i \in NonceCandidates(d, key) :
                          ~StartsWithListedUrl(run[d].dom.nodes[i], v)
                              => HasAttr(run[d].dom.nodes[i], "nonce")
                /\ HashEnabledFor(d, Other(key)) =>
                      Range(InlineHashes(d, Other(key)))
                          \subseteq Range(BuiltTokens(run[d].builtPolicy, Other(key)))

\* hashes are off for script-src in a document with inline scripts; its
\* external script still got a nonce and the inline style its hash
C9_Witness ==
    \E d \in Docs :
        /\ Processed(d)
        /\ ~HashEnabledFor(d, "script-src")
        /\ HashEnabledFor(d, "style-src")
        /\ InlineHashes(d, "script-src") # <<>>
        /\ InlineHashes(d, "style-src") # <<>>
        /\ ElementNonces(d, "script-src") # <<>>
        /\ Range(InlineHashes(d, "style-src"))
              \subseteq Range(BuiltTokens(run[d].builtPolicy, "style-src"))

(* C10: when the effective nonce-enabled map is false for a directive,     *)
(* setNonce returns no tokens for it, draws no random value and leaves     *)
(* every element its selector matches as it was.                           *)

RandomDrawn(d, key) ==
    IF key = "script-src"
    THEN run[d].randomBytesScript - run[d].randomBytesBefore
    ELSE run[d].randomBytesAfter - run[d].randomBytesScript

C10_NonceDisabledNoNonces ==
    \A d \in Docs : \A key \in Augmentable :
        (Processed(d) /\ ~NonceEnabledFor(d, key)) =>
            /\ NonceTokensOf(d, key) = <<>>
            /\ RandomDrawn(d, key) = 0
            /\ \A i \in NonceCandidates(d, key) :
                  run[d].dom.nodes[i] = Load(run[d].htmlBefore).nodes[i]
            /\ \A t \in Range(BuiltTokens(run[d].builtPolicy, key)) :
                  IsNonceToken(t) => t \in Range(OwnTokens(Get(run[d].policy, key)))

\* nonces are off for script-src in a document with an external script,
\* while the stylesheet link of the same document drew a value
C10_Witness ==
    \E d \in Docs :
        /\ Processed(d)
        /\ ~NonceEnabledFor(d, "script-src")
        /\ NonceEnabledFor(d, "style-src")
        /\ NonceCandidates(d, "script-src") # {}
        /\ RandomDrawn(d, "style-src") > 0
        /\ ElementNonces(d, "style-src") # <<>>

(* C11: for script-src and for style-src, whether hashes (nonces) are      *)
(* produced for a document follows the document's own                      *)
(* cspPlugin.hashEnabled (nonceEnabled) entry for the directive if there   *)
(* is one, else the plugin instance's entry if there is one, else true; a  *)
(* directive the instance map does not name stays enabled.                 *)

EnabledByPrecedence(documentMap, instanceMap, key) ==
    IF key \in DOMAIN documentMap THEN documentMap[key]
    ELSE IF key \in DOMAIN instanceMap THEN instanceMap[key]
    ELSE TRUE

DocumentMap(d, name) == GetOr(htmlPluginData[d].cspPlugin, name, EmptyMap)

C11_EnabledByPrecedence ==
    \A d \in Docs : \A key \in Augmentable :
        Processed(d) =>
            /\ IF EnabledByPrecedence(DocumentMap(d, "hashEnabled"),
                                      opts.hashEnabled, key)
               THEN ShaTokensOf(d, key) = InlineHashes(d, key)
               ELSE ShaTokensOf(d, key) = <<>>
            /\ IF EnabledByPrecedence(DocumentMap(d, "nonceEnabled"),
                                      opts.nonceEnabled, key)
               THEN \A i \in NonceCandidates(d, key) :
                       ~StartsWithListedUrl(run[d].dom.nodes[i],
                                            Get(run[d].policy, key))
                           => HasAttr(run[d].dom.nodes[i], "nonce")
               ELSE /\ NonceTokensOf(d, key) = <<>>
                    /\ \A i \in NonceCandidates(d, key) :
                          ~HasAttr(run[d].dom.nodes[i], "nonce")

(* C12: validatePolicy records a violation for a directive and a keyword  *)
(* of self, unsafe-inline, unsafe-eval, none, strict-dynamic,              *)
(* report-sample exactly when the keyword without apostrophes is a         *)
(* whitespace-delimited token of the directive's value, given as a string  *)
(* or as array elements; the quoted keyword and a keyword inside a longer  *)
(* token give none.                                                        *)

Keywords ==
    {"self", "unsafe-inline", "unsafe-eval", "none", "strict-dynamic",
     "report-sample"}

ValueTokens(v) == IF v.isArray THEN TokensOfAll(v.items) ELSE Tokens(v.str)

UnquotedKeywords(p) ==
    {e \in {[key |-> p[n].key, source |-> k] : n \in DOMAIN p, k \in Keywords} :
        <<e.source>> \in Range(ValueTokens(Get(p, e.key)))}

C12_ViolationsExactlyUnquotedKeywords ==
    [][\A d \in Docs :
          (pc[d] = "mergeOptions" /\ pc'[d] = "processCsp") =>
              Range(SubSeq(errors', Len(errors) + 1, Len(errors')))
                  = UnquotedKeywords(policy')]_vars

\* a merged policy with a bare keyword next to a quoted one inside one
\* array element, and with quoted keywords only in the other directives
C12_Witness ==
    /\ errors = << [key |-> "font-src", source |-> "self"] >>
    /\ HasKey(policy, "font-src")
    /\ KwNone \in Range(ValueTokens(Get(policy, "font-src")))
    /\ KwSelf \in Range(ValueTokens(Get(policy, "script-src")))

(* C13: a policy violation is not fatal.  For a document whose merged      *)
(* policy has a violation, mergeOptions has pushed the error and called    *)
(* the completion callback without an error, the host goes on to           *)
(* processCsp, and processCsp, when the plugin is enabled, builds the      *)
(* policy and hands it to the finalization function once.                  *)

OwnViolations(d) ==
    validatePolicy(mergeOptions(cspPluginPolicy, opts, htmlPluginData[d]).policy)

C13_ViolationNotFatal ==
    \A d \in Docs :
        (pc[d] \notin {"new", "mergeOptions"} /\ OwnViolations(d) # <<>>) =>
            /\ Range(OwnViolations(d)) \subseteq Range(errors)
            /\ compileCb[d] # <<>>
            /\ compileCb[d][1] = "mergeOptions"
            /\ pc[d] \in {"processCsp", "done"}
            /\ (pc[d] = "done" /\ ~DisabledFor(d)) =>
                  /\ Processed(d)
                  /\ compileCb[d] = <<"mergeOptions", "processCsp">>
                  /\ Len(CallsFor(d)) = 1
                  /\ CallsFor(d)[1].builtPolicy = run[d].builtPolicy
                  /\ \A e \in Range(validatePolicy(run[d].policy)) :
                        <<e.source>> \in
                            Range(BuiltTokens(run[d].builtPolicy, e.key))

C13_Witness ==
    \E d \in Docs :
        /\ pc[d] = "done"
        /\ OwnViolations(d) # <<>>
        /\ Processed(d)
        /\ <<"self">> \in Range(BuiltTokens(run[d].builtPolicy, "script-src"))
        /\ MetaContents(htmlPluginData[d].html) = {run[d].builtPolicy}

(* C14: new CspHtmlWebpackPlugin(policy, additionalOpts) throws            *)
(* Error("'<method>' is not a valid hashing method") if and only if the    *)
(* hashingMethod option, sha256 when left out, is not one of sha256,       *)
(* sha384, sha512; when it throws no hook has been registered and no       *)
(* document is ever processed.                                             *)

ChosenHashingMethod ==
    IF "hashingMethod" \in DOMAIN call.args.additionalOpts
    THEN call.args.additionalOpts["hashingMethod"]
    ELSE "sha256"

NothingProcessed ==
    /\ errors = <<>>
    /\ calls = <<>>
    /\ randomBytes = 0
    /\ \A d \in Docs :
          /\ pc[d] = "new"
          /\ run[d] = NoRun
          /\ compileCb[d] = <<>>
          /\ htmlPluginData[d].html.raw

C14_InvalidHashingMethodThrows ==
    call.fn = "constructor" =>
        /\ call.outcome = "pending" => NothingProcessed
        /\ call.outcome = "threw" =>
              /\ ChosenHashingMethod \notin {"sha256", "sha384", "sha512"}
              /\ call.value = <<Q, ChosenHashingMethod, Q, SP,
                                "is not a valid hashing method">>
              /\ NothingProcessed
        /\ call.outcome = "returned" =>
              /\ ChosenHashingMethod \in {"sha256", "sha384", "sha512"}
              /\ opts.hashingMethod = ChosenHashingMethod
              /\ \A d \in Docs : pc[d] # "new"

C14_Witness ==
    /\ call.fn = "constructor"
    /\ call.outcome = "threw"
    /\ call.args.additionalOpts = [hashingMethod |-> "invalid"]
    /\ call.value = <<Q, "invalid", Q, SP, "is not a valid hashing method">>

(* C15: once the plugin was constructed, mergeOptions and processCsp       *)
(* complete without raising an exception for every document and every      *)
(* policy of strings and arrays of strings, documents included in which an *)
(* element matched by script[src] or link[rel="stylesheet"] has an empty   *)
(* or missing src/href.                                                    *)

C15_NoExceptionAfterConstruction ==
    \A d \in Docs : pc[d] # "TypeError"

(* C16: for every enabled document processed with the default             *)
(* finalization function, the resulting htmlPluginData.html holds a meta   *)
(* element with http-equiv="Content-Security-Policy" whose content is the  *)
(* built policy: an existing element keeps its place and has its content   *)
(* overwritten, and when there is none one is created as the first child   *)
(* of head; nothing else in the document changes.                          *)

MetaSelector == "meta[http-equiv=\"Content-Security-Policy\"]"

CspMeta(builtPolicy) ==
    Element("meta",
            ("http-equiv" :> <<"Content-Security-Policy">>)
                @@ ("content" :> builtPolicy),
            <<>>)

C16_MetaTagCarriesBuiltPolicy ==
    \A d \in Docs :
        (pc[d] = "done" /\ Processed(d) /\ run[d].processFn = "defaultProcessFn") =>
            LET before == run[d].dom.nodes
                after == htmlPluginData[d].html.nodes
                existing == Select(run[d].dom, MetaSelector)
            IN  /\ Select(htmlPluginData[d].html, MetaSelector) # <<>>
                /\ MetaContents(htmlPluginData[d].html) = {run[d].builtPolicy}
                /\ IF existing # <<>>
                   THEN /\ Len(after) = Len(before)
                        /\ \A i \in DOMAIN before :
                              IF i \in Range(existing)
                              THEN after[i] = SetAttr(before[i], "content",
                                                      run[d].builtPolicy)
                              ELSE after[i] = before[i]
                   ELSE /\ after = <<CspMeta(run[d].builtPolicy)>> \o before
                        /\ after[1].inHead

(* C17: the finalization function used for a document is its own           *)
(* cspPlugin.processFn if it has one, else the plugin instance's processFn *)
(* option, else the default meta tag patcher.  A replacement is called     *)
(* once with the built policy and the document, and the document gets no   *)
(* meta tag from the plugin; documents without a replacement get theirs.   *)

ProcessFnByPrecedence(d) ==
    GetOr(htmlPluginData[d].cspPlugin, "processFn", opts.processFn)

C17_ProcessFnByPrecedence ==
    \A d \in Docs :
        (pc[d] = "done" /\ Processed(d)) =>
            /\ Len(CallsFor(d)) = 1
            /\ CallsFor(d)[1].fn = ProcessFnByPrecedence(d)
            /\ CallsFor(d)[1].builtPolicy = run[d].builtPolicy
            /\ IF ProcessFnByPrecedence(d) = "defaultProcessFn"
               THEN run[d].htmlBefore.hasHead
                       => MetaContents(htmlPluginData[d].html)
                             = {run[d].builtPolicy}
               ELSE htmlPluginData[d].html = run[d].htmlBefore

(* C18: buildPolicy serializes the directives in the insertion order of   *)
(* the merged policy: base-uri, object-src, script-src, style-src, then    *)
(* the directives the plugin instance's policy introduces, then those only *)
(* the document's policy has; each as its name, a space and its tokens,    *)
(* joined with "; "; within every directive, string-valued or              *)
(* array-valued, a token that repeats an earlier one and an empty token    *)
(* are dropped.                                                            *)

InsertionOrder(d) ==
    LET dk == Keys(defaultPolicy)
        ik == SelectSeq(Keys(cspPluginPolicy), LAMBDA k : k \notin Range(dk))
        pk == SelectSeq(Keys(DocumentPolicy(d)),
                        LAMBDA k : k \notin Range(dk) \cup Range(ik))
    IN  dk \o ik \o pk

SerializedInOrder(d) ==
    LET b == run[d].builtPolicy
        ds == SplitDirectives(b, <<>>)
    IN  /\ Keys(mergeOptions(cspPluginPolicy, opts, htmlPluginData[d]).policy)
              = InsertionOrder(d)
        /\ Len(ds) = Len(run[d].policy)
        /\ \A n \in DOMAIN ds :
              /\ Len(ds[n]) >= 2
              /\ ds[n][1] = run[d].policy[n].key
              /\ ds[n][2] = SP

C18_InsertionOrderDeduplicated ==
    \A d \in Docs :
        Processed(d) =>
            /\ SerializedInOrder(d)
            /\ \A n \in DOMAIN run[d].policy :
                  Tokens(Built(run[d].builtPolicy)[n].val)
                      = StrictDynamicLast(FirstOccurrences(TokensOfAll(
                            OwnElements(AugmentedOf(d)[n].val))))

(* C18, amended: the same order and form; what is dropped are the empty    *)
(* elements and the elements that repeat an earlier element of an array    *)
(* value, a string value being one element whose text is kept as given;    *)
(* 'strict-dynamic', when among the tokens, is taken out and put last.     *)

C18_InsertionOrderElementsDeduplicated ==
    \A d \in Docs :
        Processed(d) =>
            /\ SerializedInOrder(d)
            /\ \A n \in DOMAIN run[d].policy :
                  Tokens(Built(run[d].builtPolicy)[n].val)
                      = StrictDynamicLast(TokensOfAll(FirstOccurrences(
                            OwnElements(AugmentedOf(d)[n].val))))

\* a policy with directives from all three sources, one of them an array
\* with a repeated and an empty element
C18_Witness ==
    \E d \in Docs :
        /\ Processed(d)
        /\ Keys(run[d].policy) = InsertionOrder(d)
        /\ Len(run[d].policy) = 7
        /\ run[d].policy[5].key = "font-src"
        /\ run[d].policy[5].val = ArrayVal(<<KwSelf, <<>>, KwSelf>>)
        /\ run[d].policy[6].key = "img-src"
        /\ run[d].policy[7].key = "connect-src"
        /\ Built(run[d].builtPolicy)[5].val = KwSelf

(* C19: in buildPolicy's output every directive with at least one token   *)
(* is its name, exactly one space, then its tokens separated by exactly    *)
(* one space, with no doubled, leading or trailing space; for every        *)
(* array-valued directive, 'strict-dynamic' alone or among other tokens    *)
(* included.                                                               *)

SingleSpaced(s) ==
    /\ Len(s) >= 3
    /\ s[2] = SP
    /\ s[3] # SP
    /\ s[Len(s)] # SP
    /\ \A i \in 1..(Len(s) - 1) : ~(s[i] = SP /\ s[i + 1] = SP)

C19_SingleSpaces ==
    \A d \in Docs :
        Processed(d) =>
            LET ds == SplitDirectives(run[d].builtPolicy, <<>>)
            IN  \A n \in DOMAIN ds :
                    (/\ AugmentedOf(d)[n].val.isArray
                     /\ Tokens(Tail(ds[n])) # <<>>)
                        => SingleSpaced(ds[n])

(* C20: buildPolicy returns the empty string for a policy object without  *)
(* directives, and a directive whose token list is empty once repeated     *)
(* and falsy entries are removed is serialized as its name followed by one *)
(* space, not left out.                                                    *)

NoTokens(v) == v.isArray /\ compact(uniq(v.items)) = <<>>

C20_EmptyPolicyAndEmptyDirective ==
    (call.fn = "buildPolicy" /\ call.outcome = "returned") =>
        LET policyObj == call.args.policyObj
            ds == SplitDirectives(call.value, <<>>)
        IN  IF policyObj = <<>>
            THEN call.value = <<>>
            ELSE /\ Len(ds) = Len(policyObj)
                 /\ \A n \in DOMAIN policyObj :
                       NoTokens(policyObj[n].val)
                           => ds[n] = <<policyObj[n].key, SP>>

\* { 'img-src': ['', ''], 'font-src': ['https://a.com'] } was serialized
C20_Witness ==
    /\ call.fn = "buildPolicy"
    /\ call.outcome = "returned"
    /\ call.args.policyObj = << Entry("img-src", ArrayVal(<< <<>>, <<>> >>)),
                                Entry("font-src", ArrayVal(<<UrlA>>)) >>
    /\ call.value = <<"img-src", SP, SEMI, SP, "font-src", SP>> \o UrlA

(* C21: the hash token of an inline element depends only on its content   *)
(* and the configured algorithm: it has the form '<algorithm>-<digest>',   *)
(* apostrophes included, and equal contents get equal tokens whatever the  *)
(* document, the directive and the calls made before.                      *)

\* the inline elements of key's kind in the document handed to processCsp
InlineContents(d, key) ==
    LET dom == Load(run[d].htmlBefore)
        sel == Select(dom, HashSelector(key))
    IN  [n \in DOMAIN sel |-> dom.nodes[sel[n]].inner]

Hashing == {<<d, key>> \in Docs \X Augmentable : Processed(d) /\ HashEnabledFor(d, key)}

RECURSIVE NonceAttrs(_, _)
NonceAttrs(nodes, sel) ==
    IF sel = <<>> THEN <<>>
    ELSE (IF HasAttr(nodes[Head(sel)], "nonce")
          THEN <<nodes[Head(sel)].attrs["nonce"]>>
          ELSE <<>>)
         \o NonceAttrs(nodes, Tail(sel))

NonceAttrsOf(d, key) ==
    NonceAttrs(run[d].dom.nodes, Select(run[d].dom, NonceSelector(key)))

\* the random values number from + 1 to to, each as a bare attribute value
RandomValues(from, to) == [n \in 1..(to - from) |-> <<createNonce(from + n)>>]

Drew(d) == (run[d].randomBytesBefore + 1)..run[d].randomBytesAfter

C22_RandomValuesInDocumentOrder ==
    /\ \A d \in Docs :
          Processed(d) =>
              /\ NonceAttrsOf(d, "script-src") \o NonceAttrsOf(d, "style-src")
                    = RandomValues(run[d].randomBytesBefore, run[d].randomBytesAfter)
              /\ \A key \in Augmentable :
                    /\ RandomDrawn(d, key) = Len(NonceAttrsOf(d, key))
                    /\ NonceTokensOf(d, key)
                          = [n \in DOMAIN NonceAttrsOf(d, key) |->
                                <<Q, "nonce-">> \o NonceAttrsOf(d, key)[n] \o <<Q>>]
                    /\ Range(NonceTokensOf(d, key))
                          \subseteq Range(BuiltTokens(run[d].builtPolicy, key))
    /\ \A d \in Docs : \A e \in Docs \ {d} :
          (run[d].outcome # "none" /\ run[e].outcome # "none")
              => Drew(d) \cap Drew(e) = {}
    /\ UNION {Drew(d) : d \in {e \in Docs : run[e].outcome # "none"}}
          = 1..randomBytes

\* a script on a listed host was passed over, the script behind it got the
\* first value of the document and the two stylesheet links the next two,
\* after another document had drawn values
C22_Witness ==
    \E d \in Docs :
        /\ Processed(d)
        /\ run[d].randomBytesBefore > 0
        /\ Cardinality(NonceCandidates(d, "script-src")) = 2
        /\ Len(NonceAttrsOf(d, "script-src")) = 1
        /\ ~HasAttr(run[d].dom.nodes[1], "nonce")
        /\ run[d].dom.nodes[3].attrs["nonce"]
              = <<createNonce(run[d].randomBytesBefore + 1)>>
        /\ Len(NonceAttrsOf(d, "style-src")) = 2
        /\ run[d].randomBytesAfter = run[d].randomBytesBefore + 3

(* C23: isEnabled is false for a document whose own cspPlugin.enabled is  *)
(* exactly false, and the instance's predicate is then not called;         *)
(* otherwise it is the instance's enabled option, a boolean or the result  *)
(* of calling it with the document's data; processCsp evaluates it once    *)
(* per document, and a document's enabled: true does not re-enable a       *)
(* plugin whose instance option is false.                                  *)

OwnEnabledIs(d, b) ==
    /\ "enabled" \in DOMAIN htmlPluginData[d].cspPlugin
    /\ htmlPluginData[d].cspPlugin["enabled"] = b

C23_EnabledDocumentThenInstance ==
    \A d \in Docs :
        run[d].outcome # "none" =>
            /\ Len(run[d].predicateCalls) <= 1
            /\ (run[d].outcome = "disabled") = ~run[d].enabled
            /\ IF OwnEnabledIs(d, FALSE)
               THEN ~run[d].enabled /\ run[d].predicateCalls = <<>>
               ELSE IF opts.enabled.isFunction
                    THEN /\ run[d].predicateCalls = <<d>>
                         /\ run[d].enabled = (d \in opts.enabled.trueFor)
                    ELSE /\ run[d].predicateCalls = <<>>
                         /\ run[d].enabled = opts.enabled.val

\* the predicate was called for a document that says enabled: true and
\* returned false, and was not called for one that says enabled: false
C23_Witness ==
    \E d \in Docs : \E e \in Docs \ {d} :
        /\ run[d].outcome = "disabled"
        /\ OwnEnabledIs(d, TRUE)
        /\ run[d].predicateCalls = <<d>>
        /\ run[e].outcome = "disabled"
        /\ OwnEnabledIs(e, FALSE)
        /\ e \in opts.enabled.trueFor
        /\ run[e].predicateCalls = <<>>

(* C24: when the plugin was constructed with devAllowUnsafe: true, a       *)
(* script-src or style-src that holds 'unsafe-inline' or 'unsafe-eval'     *)
(* gets no hash and no nonce for the inline and external elements found;   *)
(* with devAllowUnsafe: false, or for a directive without these keywords,  *)
(* they are added as usual.                                                *)

HoldsUnsafe(v) ==
    KwUnsafeInline \in Range(OwnTokens(v)) \/ KwUnsafeEval \in Range(OwnTokens(v))

DevAllowUnsafe == "devAllowUnsafe" \in DOMAIN opts /\ opts["devAllowUnsafe"]

NonceValues(builtPolicy) ==
    {<<t[3]>> : t \in {u \in UNION {Range(Tokens(Built(builtPolicy)[n].val)) :
                                      n \in DOMAIN Built(builtPolicy)} :
                          IsNonceToken(u)}}

Carrying(html, v) ==
    {i \in DOMAIN html.nodes :
        HasAttr(html.nodes[i], "nonce") /\ html.nodes[i].attrs["nonce"] = v}

C25_NonceTokensMatchEmittedElements ==
    \A d \in Docs :
        (pc[d] = "done" /\ Processed(d)) =>
            LET handed == CallsFor(d)[1].builtPolicy
                emitted == htmlPluginData[d].html
            IN  /\ \A v \in NonceValues(handed) :
                      Cardinality(Carrying(emitted, v)) = 1
                /\ \A i \in DOMAIN emitted.nodes :
                      HasAttr(emitted.nodes[i], "nonce")
                          => emitted.nodes[i].attrs["nonce"] \in NonceValues(handed)

(* C26: every invocation of the mergeOptions hook and of the processCsp   *)
(* hook calls the host's completion callback exactly once, with a null     *)
(* error and the document data, whether the plugin is enabled or disabled  *)
(* for the document and whether or not its policy has violations; in       *)
(* processCsp the callback comes after the finalization function.          *)

\* the hooks that were invoked for document d, in order
Invoked(d) ==
    (IF pc[d] \in {"new", "mergeOptions"} THEN <<>> ELSE <<"mergeOptions">>)
    \o (IF run[d].outcome = "none" THEN <<>> ELSE <<"processCsp">>)

C26_CallbackOncePerInvocation ==
    \A d \in Docs :
        /\ compileCb[d] = Invoked(d)
        /\ (Len(compileCb[d]) = 2 /\ run[d].enabled) => Len(CallsFor(d)) = 1

(* C27: validation looks at the effective merged policy of each document *)
(* and not at whether the plugin is enabled: a violating value that a      *)
(* higher-precedence source replaces is not reported, a violating          *)
(* effective value is reported once for every document merged (N           *)
(* documents sharing it give N errors), also for a document for which the  *)
(* plugin is disabled.                                                     *)

Effective(d) == mergeOptions(cspPluginPolicy, opts, htmlPluginData[d]).policy

Merged == {d \in Docs : pc[d] \notin {"new", "mergeOptions"}}

Reported(e) == Cardinality({i \in DOMAIN errors : errors[i] = e})

C27_ViolationsOfEffectivePolicyPerDocument ==
    \A e \in Range(errors) \cup UNION {UnquotedKeywords(Effective(d)) : d \in Merged} :
        Reported(e) = Cardinality({d \in Merged : e \in UnquotedKeywords(Effective(d))})

\* the instance's img-src lacks the apostrophes and one document replaces
\* it; font-src lacks them for both documents; the other document is
\* disabled and was reported all the same
C27_Witness ==
    \E d \in Docs : \E e \in Docs \ {d} :
        /\ Merged = Docs
        /\ HasKey(DocumentPolicy(d), "img-src")
        /\ [key |-> "img-src", source |-> "self"]
              \in UnquotedKeywords(Spread(defaultPolicy, cspPluginPolicy))
        /\ run[e].outcome = "disabled"
        /\ Reported([key |-> "img-src", source |-> "self"]) = 1
        /\ Reported([key |-> "font-src", source |-> "none"]) = 2

(* C28: what the constructor set up (the built-in default policy and      *)
(* options, the instance policy, the instance options with their hash and  *)
(* nonce enable maps) is the same after any sequence of mergeOptions and   *)
(* processCsp calls: processing a document appends no hash or nonce to,    *)
(* and changes nothing in, these objects and their arrays.                 *)

C28_ConfigurationUnchanged ==
    (call.fn = "constructor" /\ call.outcome = "returned") =>
        /\ cspPluginPolicy = call.args.policy
        /\ opts = SpreadMap(defaultAdditionalOpts, call.args.additionalOpts)
        /\ \A key \in {"hashEnabled", "nonceEnabled"} :
              key \notin DOMAIN call.args.additionalOpts
                  => opts[key] = defaultAdditionalOpts[key]

\* every document was processed and gained hashes and nonces for a
\* script-src that is an array of the instance policy
C28_Witness ==
    /\ call.fn = "constructor"
    /\ call.outcome = "returned"
    /\ HasKey(cspPluginPolicy, "script-src")
    /\ Get(cspPluginPolicy, "script-src") = ArrayVal(<<KwSelf, HashX, UrlE>>)
    /\ \A d \in Docs :
          /\ pc[d] = "done"
          /\ Processed(d)
          /\ Get(run[d].policy, "script-src") = Get(cspPluginPolicy, "script-src")
          /\ run[d].scriptShas # <<>>
          /\ run[d].scriptNonce # <<>>

(* C29: the hash and nonce tokens of a document's built policy are those  *)
(* the user listed and those derived from the document's own elements: a   *)
(* hash or nonce produced for another document of the same plugin instance *)
(* is in it only if this document's own elements give it too, and no nonce *)
(* is given to two documents.                                              *)

\* the tokens of the script-src and style-src values the constructor and
\* the documents were given by the user
UserListed ==
    UNION { UNION {Range(OwnTokens(p[n].val)) : n \in DOMAIN p} :
              p \in {call.args.policy} \cup {DocumentPolicy(d) : d \in Docs} }

\* the hash and nonce tokens the elements of document d give directive key
DerivedFrom(d, key) ==
    (IF HashEnabledFor(d, key) THEN Range(InlineHashes(d, key)) ELSE {})
    \cup (IF NonceEnabledFor(d, key) THEN Range(ElementNonces(d, key)) ELSE {})

\* the hash and nonce tokens processCsp produced for document d
ProducedFor(d) ==
    UNION {Range(ShaTokensOf(d, key)) \cup Range(NonceTokensOf(d, key)) : key \in Augmentable}

C29_OnlyOwnHashesAndNonces ==
    \A d \in Docs :
        Processed(d) =>
            /\ \A key \in Augmentable :
                  LET toks == Range(BuiltTokens(run[d].builtPolicy, key))
                  IN  /\ {t \in toks : IsHashToken(t) \/ IsNonceToken(t)} \ UserListed
                            = DerivedFrom(d, key) \ UserListed
                      /\ \A e \in Docs \ {d} :
                            Processed(e) =>
                                (ProducedFor(e) \cap toks)
                                    \subseteq (UserListed \cup DerivedFrom(d, key))
            /\ \A e \in Docs \ {d} :
                  Processed(e) =>
                      {t \in ProducedFor(d) : IsNonceToken(t)} \cap ProducedFor(e) = {}

\* a document was processed right after a different one that got hashes
\* and nonces for both directives, and got hashes and nonces of its own
C29_Witness ==
    \E d \in Docs : \E e \in Docs \ {d} :
        /\ Processed(d) /\ Processed(e)
        /\ run[d].htmlBefore # run[e].htmlBefore
        /\ run[e].randomBytesBefore = run[d].randomBytesAfter
        /\ \A key \in Augmentable :
              /\ ShaTokensOf(d, key) # <<>>
              /\ NonceTokensOf(d, key) # <<>>
        /\ run[e].scriptShas # <<>>
        /\ run[e].scriptNonce # <<>>
        /\ Range(run[d].scriptShas) \ Range(BuiltTokens(run[e].builtPolicy, "script-src")) # {}

(* C30: the number of hash tokens processCsp adds to script-src (or        *)
(* style-src) is the number of distinct contents among the document's      *)
(* inline elements of that kind whose hash is not already a token of the   *)
(* effective directive; the hash of an inline content, the empty one       *)
(* included, stands exactly once in the built directive, also when several *)
(* elements have that content or the user listed the hash.                 *)

\* how often token t stands in the token sequence toks
Occurrences(toks, t) == Cardinality({n \in DOMAIN toks : toks[n] = t})

HashCount(toks) == Cardinality({n \in DOMAIN toks : IsHashToken(toks[n])})

\* the tokens buildPolicy keeps of the directive's own elements
KeptOwnTokens(v) == TokensOfAll(FirstOccurrences(OwnElements(v)))

\* the hash tokens of the built directive beyond those of its own elements
HashesAdded(d, key) ==
    HashCount(BuiltTokens(run[d].builtPolicy, key))
        - HashCount(KeptOwnTokens(Get(run[d].policy, key)))

DistinctContents(d, key) == Range(InlineContents(d, key))

C30_OneHashPerDistinctUnlistedContent ==
    \A h \in Hashing :
        LET d == h[1]
            key == h[2]
            listed == Range(OwnTokens(Get(run[d].policy, key)))
        IN  /\ HashesAdded(d, key)
                  = Cardinality({c \in DistinctContents(d, key) :
                                    hash(opts, c) \notin listed})
            /\ \A c \in DistinctContents(d, key) :
                  Occurrences(BuiltTokens(run[d].builtPolicy, key), hash(opts, c)) = 1

(* C30, amended: a hash counts as already present when it is an element of *)
(* the effective directive, a string value counting as one element; a hash *)
(* that stands inside a longer string is added once more behind it.        *)

C30_OneHashPerDistinctContentNotAnElement ==
    \A h \in Hashing :
        LET d == h[1]
            key == h[2]
            v == Get(run[d].policy, key)
            elements == Range(OwnElements(v))
        IN  /\ HashesAdded(d, key)
                  = Cardinality({c \in DistinctContents(d, key) :
                                    hash(opts, c) \notin elements})
            /\ \A c \in DistinctContents(d, key) :
                  Occurrences(BuiltTokens(run[d].builtPolicy, key), hash(opts, c))
                      = IF hash(opts, c) \in elements
                        THEN Occurrences(KeptOwnTokens(v), hash(opts, c))
                        ELSE Occurrences(KeptOwnTokens(v), hash(opts, c)) + 1

\* three inline scripts, two of them alike and one empty, met a script-src
\* array that lists the hash of the two: one hash was added; the style of
\* the same content met a string that holds its hash: it stands twice
C30_Witness ==
    \E d \in Docs :
        /\ Processed(d)
        /\ <<d, "script-src">> \in Hashing /\ <<d, "style-src">> \in Hashing
        /\ Get(run[d].policy, "script-src") = ArrayVal(<<KwSelf, HashX, UrlE>>)
        /\ ~Get(run[d].policy, "style-src").isArray
        /\ Len(InlineContents(d, "script-src")) = 3
        /\ DistinctContents(d, "script-src") = {<<"x">>, <<>>}
        /\ HashesAdded(d, "script-src") = 1
        /\ Occurrences(BuiltTokens(run[d].builtPolicy, "script-src"), HashX) = 1
        /\ Occurrences(BuiltTokens(run[d].builtPolicy, "script-src"), hash(opts, <<>>)) = 1
        /\ DistinctContents(d, "style-src") = {<<"x">>}
        /\ Occurrences(BuiltTokens(run[d].builtPolicy, "style-src"), HashX) = 2

====
